---- MODULE Spec2Model ----
(***************************************************************************)
(* Authentication / authorization core of Api-Studio (backend/).          *)
(*                                                                         *)
(* The model follows the Python sources: the JWT service, the bootstrap    *)
(* service, the authentication service, the admin service and the         *)
(* authentication middleware, over the User / OTPCode / Invitation tables. *)
(* Time is a discrete clock `now` (UTC); durations are scaled to ticks.    *)
(***************************************************************************)
EXTENDS Integers, FiniteSets, Sequences, TLC

VARIABLES
  app_mode,     \* settings.app_mode: "local" | "hosted"
  tzOffset,     \* host's local-time offset from UTC, in ticks (datetime.now() - utcnow)
  now,          \* UTC clock
  users,        \* User table: id -> row
  nextId,       \* next autoincrement User id
  otps,         \* OTPCode table (set of rows)
  invitations,  \* Invitation table (set of rows)
  issued,       \* tokens signed with the server key, each with the operation that made it
  procs,        \* in-flight HTTP requests, one slot per worker
  res,          \* outcome of the last completed operation
  hist,         \* history: per user, the login attempts made so far; in the
                \* invitation specifications, per invitation id, the wrong codes
                \* submitted for it
  rateAttempts, \* rate_limiter._ip_attempts and ._email_attempts: key -> endpoint -> record
  lastCheck     \* history: the last check_rate_limit a route made and its verdict

envVars == <<app_mode, tzOffset>>
rateVars == <<rateAttempts, lastCheck>>
dbVars  == <<users, nextId, otps, invitations>>
vars    == <<app_mode, tzOffset, now, users, nextId, otps, invitations, issued, procs, res,
             hist, rateAttempts, lastCheck>>

----------------------------------------------------------------------------
(* Bounds of the model *)

MaxTime   == 4      \* the clock stops here
MaxUsers  == 3      \* User ids 1..MaxUsers
MaxIssued == 1      \* tokens kept in the JWT-service specification

(* Program constants, durations scaled to ticks (1 tick ~ 10 minutes) *)

jwt_expiry             == 3   \* settings.jwt_expiry (24 h), the longest lifetime
otp_expiry             == 1   \* settings.otp_expiry (600 s)
max_login_attempts     == 5   \* settings.max_login_attempts
login_lockout_duration == 2   \* settings.login_lockout_duration (900 s)

UserIds == 1..MaxUsers
Emails  == {"a@x", "b@x", "c@x"}
Roles   == {"admin", "editor", "viewer"}

----------------------------------------------------------------------------
(* JWT service: core/jwt_service.py.  A token is its payload (a function   *)
(* from claim names to values); its signature is membership in `issued`.   *)

NoneS == "<none>"

\* dict.get(key) for string-valued claims
Get(payload, key) == IF key \in DOMAIN payload THEN payload[key] ELSE NoneS

\* dict.get(key) for integer-valued claims; None and 0 are both falsy
GetInt(payload, key) == IF key \in DOMAIN payload THEN payload[key] ELSE 0

\* a buggy stamping that lets the caller's own claims win (setdefault)
DictUpdate_KeepCaller(d, u) ==
  [k \in (DOMAIN d) \cup (DOMAIN u) |-> IF k \in DOMAIN d THEN d[k] ELSE u[k]]

\* to_encode.update({...}): the stamped claims override the caller's
DictUpdate(d, u) ==
  [k \in (DOMAIN d) \cup (DOMAIN u) |-> IF k \in DOMAIN u THEN u[k] ELSE d[k]]

create_token(user_data, t) ==
  DictUpdate(user_data, [exp |-> t + jwt_expiry, iat |-> t, type |-> "session"])

create_temp_token(user_data, expires, t) ==
  DictUpdate(user_data, [exp |-> t + expires, iat |-> t, type |-> "temporary"])

create_reset_token(user_data, expires, t) ==
  DictUpdate(user_data, [exp |-> t + expires, iat |-> t, type |-> "reset"])

Signed == {r.tok : r \in issued}

\* verify_token: signature and expiry; TRUE iff it returns the payload
verify_token_ok(token) == token \in Signed /\ ~(token["exp"] < now)

decode_temp_token_ok(token) ==
  verify_token_ok(token) /\ Get(token, "type") = "temporary"

decode_reset_token_ok(token) ==
  verify_token_ok(token) /\ Get(token, "type") = "reset"

----------------------------------------------------------------------------
(* User table: db/models.py *)

NoUser == [exists |-> FALSE, email |-> NoneS, role |-> NoneS, status |-> NoneS,
           failed |-> 0, locked_until |-> 0, tfa |-> FALSE,
           hashed_password |-> <<>>, backup_codes |-> NoneS]

\* a freshly inserted row: failed_login_attempts = 0, locked_until = None
NewUser(email, role, status) ==
  [exists |-> TRUE, email |-> email, role |-> role, status |-> status,
   failed |-> 0, locked_until |-> 0, tfa |-> FALSE,
   hashed_password |-> <<>>, backup_codes |-> NoneS]

\* session.get(User, id)
GetUser(id) == IF id \in UserIds THEN users[id] ELSE NoUser

UserIdsByEmail(email) == {i \in UserIds : users[i].exists /\ users[i].email = email}

ActiveAdmins == {i \in UserIds : users[i].exists /\ users[i].role = "admin"
                                  /\ users[i].status = "active"}

\* db/seed.py check_bootstrap_state: is_locked = no row with role admin, of any status
check_bootstrap_state_is_locked ==
  {i \in UserIds : users[i].exists /\ users[i].role = "admin"} = {}

\* a lock that counts admins of any status
is_system_locked_AnyStatus == check_bootstrap_state_is_locked

\* BootstrapService.is_system_locked: no row with role admin and status active
is_system_locked == ActiveAdmins = {}

\* str(user.id) and int(sub)
Digits == <<"1", "2", "3", "4", "5">>
StrOfInt(i) == Digits[i]
IsIntStr(s) == \E i \in 1..Len(Digits) : Digits[i] = s
IntOfStr(s) == CHOOSE i \in 1..Len(Digits) : Digits[i] = s

----------------------------------------------------------------------------
(* Outcome records and the history *)

\* per user: streak = consecutive calls of authenticate_user that failed on the
\* password; fails = failed attempts committed since the last successful login
NoHist == [u \in UserIds |-> [streak |-> 0, fails |-> 0]]

NoTok == [type |-> NoneS]
\* `audit` is the action of the user-management audit record the call wrote
\* (audit_service.log_user_management_event), if it wrote one
NoRes == [op |-> "none", ok |-> FALSE, why |-> "none", uid |-> 0, tok |-> NoTok,
          path |-> <<>>, audit |-> NoneS]
Res(op, ok, why, uid, tok) ==
  [op |-> op, ok |-> ok, why |-> why, uid |-> uid, tok |-> tok, path |-> <<>>,
   audit |-> NoneS]

\* the outcome of a call that wrote the audit record `action` before returning
Audited(op, ok, why, uid, action) ==
  [Res(op, ok, why, uid, NoTok) EXCEPT !.audit = action]

----------------------------------------------------------------------------
(* Session-token entry points *)

\* AuthenticationMiddleware._validate_token: the reason it rejects, or "ok"
validate_token(token) ==
  IF ~verify_token_ok(token) THEN "401_token_validation_failed"
  ELSE IF Get(token, "type") # "session" THEN "401_invalid_token_type"
  ELSE IF GetInt(token, "user_id") = 0 THEN "401_invalid_token_payload"
  ELSE LET user == GetUser(GetInt(token, "user_id")) IN
    IF ~user.exists THEN "401_user_not_found"
    ELSE IF user.status # "active" THEN "401_account_not_active"
    ELSE IF user.locked_until # 0 /\ user.locked_until > now + tzOffset
      THEN "401_account_locked"
    ELSE "ok"

\* api/routes/auth.py get_current_user, hosted mode: the reason it rejects, or "ok"
get_current_user_hosted(token) ==
  IF ~verify_token_ok(token) THEN "401_token_validation_failed"
  ELSE IF Get(token, "sub") = NoneS THEN "401_invalid_token_payload"
  ELSE IF ~IsIntStr(Get(token, "sub")) THEN "401_token_validation_failed"
  ELSE LET user == GetUser(IntOfStr(Get(token, "sub"))) IN
    IF ~user.exists \/ user.status # "active" THEN "401_user_not_found_or_inactive"
    ELSE "ok"

----------------------------------------------------------------------------
(* core/rate_limiter.py: the in-memory RateLimiter.  One tick of the clock  *)
(* is 15 minutes; retry_after is counted in ticks.                         *)

\* self.rules: max_attempts, window_minutes and lockout_minutes per endpoint
rules ==
  [login          |-> [max_attempts |-> 5,  window |-> 1, lockout |-> 1],
   password_reset |-> [max_attempts |-> 3,  window |-> 4, lockout |-> 0],
   otp_request    |-> [max_attempts |-> 5,  window |-> 4, lockout |-> 0],
   bootstrap      |-> [max_attempts |-> 3,  window |-> 4, lockout |-> 2],
   invitation     |-> [max_attempts |-> 10, window |-> 4, lockout |-> 0]]

ClientIps == {"10.0.0.1"}
LimitedEmails == {"a@x"}
LimiterKeys == ({"ip"} \X ClientIps) \cup ({"email"} \X LimitedEmails)

\* a key the defaultdict has not been asked for yet; -1 stands for None
NoRecord == [count |-> 0, window_start |-> -1, locked_until |-> -1]
NoAttempts == [k \in LimiterKeys |-> [e \in DOMAIN rules |-> NoRecord]]
NoCheck == [at |-> 0, allowed |-> TRUE, retry_after |-> -1, key |-> <<>>]

\* defaultdict(lambda: AttemptRecord(0, datetime.now(timezone.utc)))
AttemptRecord(rec, current_time) ==
  IF rec.window_start = -1
  THEN [count |-> 0, window_start |-> current_time, locked_until |-> -1]
  ELSE rec

\* `if current_time > window_end:` in _check_limit and _record_attempt
reset_window(record, rule, current_time) ==
  IF current_time > record.window_start + rule.window
  THEN [count |-> 0, window_start |-> current_time, locked_until |-> -1]
  ELSE record

\* RateLimiter._check_limit: the verdict, retry_after and the record as it leaves it
_check_limit(rec, rule, current_time) ==
  LET record == AttemptRecord(rec, current_time) IN
  IF record.locked_until # -1 /\ current_time < record.locked_until
  THEN [allowed |-> FALSE, retry_after |-> record.locked_until - current_time,
        record |-> record]
  ELSE LET window_end == record.window_start + rule.window
           r1 == reset_window(record, rule, current_time)
       IN IF r1.count >= rule.max_attempts
          THEN IF rule.lockout > 0
               THEN [allowed |-> FALSE, retry_after |-> rule.lockout,
                     record |-> [r1 EXCEPT !.locked_until = current_time + rule.lockout]]
               ELSE [allowed |-> FALSE, retry_after |-> window_end - current_time,
                     record |-> r1]
          ELSE [allowed |-> TRUE, retry_after |-> -1, record |-> r1]

\* RateLimiter.check_rate_limit: the IP record first, then the email record
check_rate_limit(att, endpoint, ip_address, email, current_time) ==
  IF endpoint \notin DOMAIN rules
  THEN [allowed |-> TRUE, retry_after |-> -1, attempts |-> att]
  ELSE
    LET rule == rules[endpoint]
        byIp == _check_limit(att[<<"ip", ip_address>>][endpoint], rule, current_time)
        att1 == IF ip_address = NoneS THEN att
                ELSE [att EXCEPT ![<<"ip", ip_address>>][endpoint] = byIp.record]
    IN IF ip_address # NoneS /\ ~byIp.allowed
       THEN [allowed |-> FALSE, retry_after |-> byIp.retry_after, attempts |-> att1]
       ELSE
         LET byEmail == _check_limit(att1[<<"email", email>>][endpoint], rule,
                                    current_time)
             att2 == IF email = NoneS THEN att1
                     ELSE [att1 EXCEPT ![<<"email", email>>][endpoint] = byEmail.record]
         IN IF email # NoneS /\ ~byEmail.allowed
            THEN [allowed |-> FALSE, retry_after |-> byEmail.retry_after,
                  attempts |-> att2]
            ELSE [allowed |-> TRUE, retry_after |-> -1, attempts |-> att2]

\* RateLimiter._record_attempt
_record_attempt(rec, endpoint, rule, current_time, success) ==
  LET record == reset_window(AttemptRecord(rec, current_time), rule, current_time)
      counted == IF ~success \/ endpoint \in {"otp_request", "invitation"}
                 THEN [record EXCEPT !.count = @ + 1] ELSE record
  IN IF success /\ endpoint = "login"
     THEN [counted EXCEPT !.count = 0, !.locked_until = -1]
     ELSE counted

\* RateLimiter.record_attempt
record_attempt(att, endpoint, success, ip_address, email, current_time) ==
  IF endpoint \notin DOMAIN rules THEN att
  ELSE
    LET rule == rules[endpoint]
        att1 == IF ip_address = NoneS THEN att
                ELSE [att EXCEPT ![<<"ip", ip_address>>][endpoint] =
                        _record_attempt(@, endpoint, rule, current_time, success)]
    IN IF email = NoneS THEN att1
       ELSE [att1 EXCEPT ![<<"email", email>>][endpoint] =
               _record_attempt(@, endpoint, rule, current_time, success)]

----------------------------------------------------------------------------
(* The clock *)

Tick ==
  /\ now < MaxTime
  /\ now' = now + 1
  /\ UNCHANGED <<envVars, rateVars, hist, dbVars, issued, procs, res>>

----------------------------------------------------------------------------
(* Specification SpecJwt: the token service and the two session-token     *)
(* entry points, applied to tokens made from caller-supplied claims.      *)

\* caller-supplied claims: any subset of {type, sub, user_id}
ClaimsOf(ty, sb, ui) ==
  [k \in (IF ty = NoneS THEN {} ELSE {"type"})
          \cup (IF sb = NoneS THEN {} ELSE {"sub"})
          \cup (IF ui = 0 THEN {} ELSE {"user_id"})
      |-> IF k = "type" THEN ty ELSE IF k = "sub" THEN sb ELSE ui]

CallerClaims ==
  {ClaimsOf(ty, sb, ui) : ty \in {NoneS, "session", "temporary", "reset"},
                          sb \in {NoneS, "1"}, ui \in {0, 1}}

\* worker slots; a request between the middleware and its handler, or between
\* two statements of a handler, occupies one
Procs == {1, 2}

Idle == [pc |-> "idle", op |-> NoneS, uid |-> 0, role |-> NoneS,
         target |-> 0, arg |-> NoneS, seen |-> 0, email |-> NoneS]

NoProcs == [p \in Procs |-> Idle]

InitJwt ==
  /\ app_mode = "hosted"
  /\ tzOffset = 0
  /\ now = 0
  /\ users = [i \in UserIds |-> IF i = 1 THEN NewUser("a@x", "admin", "active") ELSE NoUser]
  /\ nextId = 2
  /\ otps = {}
  /\ invitations = {}
  /\ issued = {}
  /\ procs = NoProcs
  /\ res = NoRes
  /\ hist = NoHist
  /\ rateAttempts = NoAttempts
  /\ lastCheck = NoCheck

Issue(tok, by) ==
  /\ Cardinality(issued) < MaxIssued
  /\ issued' = issued \cup {[tok |-> tok, by |-> by]}

JCreateToken ==
  \E c \in CallerClaims :
    /\ Issue(create_token(c, now), "create_token")
    /\ UNCHANGED <<envVars, rateVars, hist, dbVars, now, procs, res>>

JCreateTemp ==
  \E c \in CallerClaims :
    /\ Issue(create_temp_token(c, 1, now), "create_temp_token")
    /\ UNCHANGED <<envVars, rateVars, hist, dbVars, now, procs, res>>

JCreateReset ==
  \E c \in CallerClaims :
    /\ Issue(create_reset_token(c, 2, now), "create_reset_token")
    /\ UNCHANGED <<envVars, rateVars, hist, dbVars, now, procs, res>>

JDecodeTemp ==
  \E t \in Signed :
    /\ res' = Res("decode_temp_token", decode_temp_token_ok(t), "", 0, t)
    /\ UNCHANGED <<envVars, rateVars, hist, dbVars, now, issued, procs>>

JDecodeReset ==
  \E t \in Signed :
    /\ res' = Res("decode_reset_token", decode_reset_token_ok(t), "", 0, t)
    /\ UNCHANGED <<envVars, rateVars, hist, dbVars, now, issued, procs>>

\* a request to a protected route carrying token t reaches _validate_token
JMiddleware ==
  \E t \in Signed :
    /\ res' = Res("validate_token", validate_token(t) = "ok", validate_token(t),
                  GetInt(t, "user_id"), t)
    /\ UNCHANGED <<envVars, rateVars, hist, dbVars, now, issued, procs>>

\* a route depending on get_current_user is called with token t
JGetCurrentUser ==
  \E t \in Signed :
    /\ res' = Res("get_current_user", get_current_user_hosted(t) = "ok",
                  get_current_user_hosted(t), 0, t)
    /\ UNCHANGED <<envVars, rateVars, hist, dbVars, now, issued, procs>>

NextJwt ==
  \/ JCreateToken \/ JCreateTemp \/ JCreateReset
  \/ JDecodeTemp \/ JDecodeReset \/ JMiddleware \/ JGetCurrentUser
  \/ Tick

SpecJwt == InitJwt /\ [][NextJwt]_vars

\* the operations that made token t
MadeBy(t) == {r.by : r \in {x \in issued : x.tok = t}}

\* C5 (token type isolation): decode_temp_token succeeds only on tokens made by
\* create_temp_token and decode_reset_token only on tokens made by
\* create_reset_token, whatever 'type' the caller's claims carried, and each
\* succeeds on every unexpired token of its own kind.
C5_TypeIsolation ==
  /\ (res.op = "decode_temp_token" /\ res.ok) => MadeBy(res.tok) = {"create_temp_token"}
  /\ (res.op = "decode_reset_token" /\ res.ok) => MadeBy(res.tok) = {"create_reset_token"}
  /\ \A r \in issued :
       /\ decode_temp_token_ok(r.tok)
            <=> (r.by = "create_temp_token" /\ r.tok["exp"] >= now)
       /\ decode_reset_token_ok(r.tok)
            <=> (r.by = "create_reset_token" /\ r.tok["exp"] >= now)

\* a temporary token whose caller claims said type = "reset" was decoded as temporary,
\* and decode_reset_token was refused a temporary token
C5_Witness ==
  /\ res.op = "decode_temp_token" /\ res.ok
  /\ \E c \in CallerClaims : Get(c, "type") = "reset"
         /\ \E t \in 0..MaxTime : res.tok = create_temp_token(c, 1, t)

C4_MiddlewareSessionOnly ==
  (res.op = "validate_token" /\ res.ok) => MadeBy(res.tok) = {"create_token"}

----------------------------------------------------------------------------
(* Bootstrap service: api/services/bootstrap_service.py *)

admin_bootstrap_token == "T"                \* settings.admin_bootstrap_token
Codes     == {"111111", "222222"}           \* password_service.generate_otp()
Passwords == {"Str0ng!Passw0rd99", "short"}
TotpCodes == {"totp-current", "totp-wrong"}

validate_bootstrap_token(token) == token = admin_bootstrap_token

\* password_service.hash_password / verify_password (bcrypt)
hash_password(password) == <<"bcrypt", password>>

verify_password(password, hashed) == hashed = hash_password(password)

\* password_service.validate_complexity
validate_complexity(password) == password # "short"

\* two_factor_service.verify_totp against the user's secret
verify_totp(code) == code = "totp-current"

\* An OTPCode row carries, beside its columns, `sent`: whether email_service.send_otp
\* delivered its code.
\* .first() of a query over OTPCode rows (the primary key is never read by the code)
FirstRow(rows) == CHOOSE r \in rows : TRUE

OtpRows(email, otp_type) == {o \in otps : o.email = email /\ o.otp_type = otp_type}

\* a cap that lets one more attempt through
otp_attempts_exhausted_OffByOne(rec) == rec.attempts > 3

\* `if otp_record.attempts >= 3`, in both verify functions
otp_attempts_exhausted(rec) == rec.attempts >= 3

\* `if now > expires_at`, in both verify functions
otp_expired(rec) == now > rec.expires_at

\* tokens a system specification may hold at once
MaxTokens == 6

AddToken(tok, by) ==
  /\ Cardinality(issued) < MaxTokens
  /\ issued' = issued \cup {[tok |-> tok, by |-> by]}

\* POST /api/bootstrap -> BootstrapService.initiate_bootstrap
initiate_bootstrap(token, email, smtp_ok, email_sent, otp) ==
  /\ app_mode = "hosted"
  /\ IF ~is_system_locked THEN
       /\ res' = Res("initiate_bootstrap", FALSE, "not_locked", 0, NoTok)
       /\ UNCHANGED otps
     ELSE IF ~validate_bootstrap_token(token) THEN
       /\ res' = Res("initiate_bootstrap", FALSE, "invalid_token", 0, NoTok)
       /\ UNCHANGED otps
     ELSE IF ~smtp_ok THEN
       /\ res' = Res("initiate_bootstrap", FALSE, "smtp_failed", 0, NoTok)
       /\ UNCHANGED otps
     ELSE
       /\ otps' = (otps \ OtpRows(email, "bootstrap")) \cup
                    {[email |-> email, otp_type |-> "bootstrap", code |-> otp,
                      expires_at |-> now + otp_expiry, attempts |-> 0, used |-> FALSE,
                      sent |-> email_sent]}
       /\ res' = Res("initiate_bootstrap", email_sent,
                     IF email_sent THEN "ok" ELSE "send_failed", 0, NoTok)
  /\ UNCHANGED <<envVars, hist, now, users, nextId, invitations, issued, procs>>

\* BootstrapService.verify_bootstrap_otp
verify_bootstrap_otp(email, otp) ==
  LET rows == {o \in OtpRows(email, "bootstrap") : ~o.used} IN
  IF rows = {} THEN
    /\ res' = Res("verify_bootstrap_otp", FALSE, "no_otp", 0, NoTok)
    /\ UNCHANGED <<otps, issued>>
  ELSE LET rec == FirstRow(rows) IN
    IF otp_expired(rec) THEN
      /\ otps' = otps \ {rec}
      /\ res' = Res("verify_bootstrap_otp", FALSE, "expired", 0, NoTok)
      /\ UNCHANGED issued
    ELSE IF otp_attempts_exhausted(rec) THEN
      /\ otps' = otps \ {rec}
      /\ res' = Res("verify_bootstrap_otp", FALSE, "too_many_attempts", 0, NoTok)
      /\ UNCHANGED issued
    ELSE IF rec.code # otp THEN
      /\ otps' = (otps \ {rec}) \cup {[rec EXCEPT !.attempts = @ + 1]}
      /\ res' = Res("verify_bootstrap_otp", FALSE, "invalid_code", 0, NoTok)
      /\ UNCHANGED issued
    ELSE
      LET tok == create_temp_token(
                   [email |-> email, purpose |-> "admin_setup", step |-> "password_setup"],
                   2, now) IN
      /\ otps' = (otps \ {rec}) \cup {[rec EXCEPT !.used = TRUE]}
      /\ AddToken(tok, "create_temp_token")
      /\ res' = Res("verify_bootstrap_otp", TRUE, "ok", 0, NoTok)

\* a route that goes straight to the service, without the lock check
verify_bootstrap_otp_route_NoRecheck(email, otp) ==
  /\ app_mode = "hosted"
  /\ verify_bootstrap_otp(email, otp)
  /\ UNCHANGED <<envVars, rateVars, hist, now, users, nextId, invitations, procs>>

\* POST /api/bootstrap/verify-otp: the route re-checks the lock, then calls the service
verify_bootstrap_otp_route(email, otp) ==
  /\ app_mode = "hosted"
  /\ IF ~is_system_locked THEN
       /\ res' = Res("verify_bootstrap_otp", FALSE, "not_locked", 0, NoTok)
       /\ UNCHANGED <<otps, issued>>
     ELSE verify_bootstrap_otp(email, otp)
  /\ UNCHANGED <<envVars, rateVars, hist, now, users, nextId, invitations, procs>>

\* POST /api/auth/first-time-password -> BootstrapService.setup_first_time_password
setup_first_time_password(temp_token, password, confirm_password) ==
  /\ IF ~decode_temp_token_ok(temp_token) THEN
       /\ res' = Res("setup_first_time_password", FALSE, "invalid_or_expired_token", 0, NoTok)
       /\ UNCHANGED <<users, nextId, issued>>
     ELSE IF Get(temp_token, "purpose") # "admin_setup" THEN
       /\ res' = Res("setup_first_time_password", FALSE, "invalid_setup_token", 0, NoTok)
       /\ UNCHANGED <<users, nextId, issued>>
     ELSE IF Get(temp_token, "email") = NoneS THEN
       /\ res' = Res("setup_first_time_password", FALSE, "invalid_token_data", 0, NoTok)
       /\ UNCHANGED <<users, nextId, issued>>
     ELSE IF password # confirm_password THEN
       /\ res' = Res("setup_first_time_password", FALSE, "mismatch", 0, NoTok)
       /\ UNCHANGED <<users, nextId, issued>>
     ELSE IF ~validate_complexity(password) THEN
       /\ res' = Res("setup_first_time_password", FALSE, "weak_password", 0, NoTok)
       /\ UNCHANGED <<users, nextId, issued>>
     ELSE IF UserIdsByEmail(Get(temp_token, "email")) # {} THEN
       /\ res' = Res("setup_first_time_password", FALSE, "user_exists", 0, NoTok)
       /\ UNCHANGED <<users, nextId, issued>>
     ELSE
       LET tok == create_temp_token(
                    [user_id |-> nextId, email |-> Get(temp_token, "email"),
                     purpose |-> "2fa_setup"], 3, now) IN
       /\ nextId \in UserIds
       /\ users' = [users EXCEPT ![nextId] =
                      [NewUser(Get(temp_token, "email"), "admin", "pending_2fa")
                         EXCEPT !.hashed_password = hash_password(password)]]
       /\ nextId' = nextId + 1
       /\ AddToken(tok, "create_temp_token")
       /\ res' = Res("setup_first_time_password", TRUE, "ok", nextId, NoTok)
  /\ UNCHANGED <<envVars, rateVars, hist, now, otps, invitations, procs>>

\* lines 382-385: the user must exist and be pending_2fa
UserStateOkFor2fa(user_id) ==
  GetUser(user_id).exists /\ GetUser(user_id).status = "pending_2fa"

\* POST /api/auth/verify-2fa-setup -> BootstrapService.verify_2fa_setup
verify_2fa_setup(setup_token, totp_code) ==
  /\ IF ~decode_temp_token_ok(setup_token) THEN
       /\ res' = Res("verify_2fa_setup", FALSE, "invalid_or_expired_token", 0, NoTok)
       /\ UNCHANGED <<users, issued>>
     ELSE IF Get(setup_token, "purpose") # "2fa_setup" THEN
       /\ res' = Res("verify_2fa_setup", FALSE, "invalid_setup_token", 0, NoTok)
       /\ UNCHANGED <<users, issued>>
     ELSE IF GetInt(setup_token, "user_id") = 0 THEN
       /\ res' = Res("verify_2fa_setup", FALSE, "invalid_token_data", 0, NoTok)
       /\ UNCHANGED <<users, issued>>
     ELSE LET uid == GetInt(setup_token, "user_id") IN
       IF ~UserStateOkFor2fa(uid) THEN
         /\ res' = Res("verify_2fa_setup", FALSE, "invalid_user_state", uid, NoTok)
         /\ UNCHANGED <<users, issued>>
       ELSE IF ~verify_totp(totp_code) THEN
         /\ res' = Res("verify_2fa_setup", FALSE, "invalid_code", uid, NoTok)
         /\ UNCHANGED <<users, issued>>
       ELSE
         LET tok == create_token(
                      [user_id |-> uid, email |-> users[uid].email,
                       role |-> users[uid].role], now) IN
         /\ users' = [users EXCEPT ![uid].tfa = TRUE, ![uid].status = "active",
                                   ![uid].backup_codes = "csv-of-bcrypt"]
         /\ AddToken(tok, "create_token")
         /\ res' = Res("verify_2fa_setup", TRUE, "ok", uid, NoTok)
  /\ UNCHANGED <<envVars, rateVars, hist, now, nextId, otps, invitations, procs>>

----------------------------------------------------------------------------
(* Specification SpecBoot: the bootstrap flow on a fresh hosted system,    *)
(* any number of flows for any emails, in any order.                      *)

BootEmails == {"a@x", "b@x"}

InitEmpty ==
  /\ tzOffset = 0
  /\ now = 0
  /\ users = [i \in UserIds |-> NoUser]
  /\ nextId = 1
  /\ otps = {}
  /\ invitations = {}
  /\ issued = {}
  /\ procs = NoProcs
  /\ res = NoRes
  /\ hist = NoHist
  /\ rateAttempts = NoAttempts
  /\ lastCheck = NoCheck

InitBoot == app_mode = "hosted" /\ InitEmpty

\* POST /api/bootstrap with the rate limiter left out: the limiter only refuses
\* calls, so every run of the limited route (initiate_bootstrap_route, in
\* SpecLimiter) is, but for the refused calls, a run of this one
InitiateBootstrapOn(emails, sends) ==
  \E token \in {admin_bootstrap_token, "wrong"}, email \in emails,
     smtp_ok \in BOOLEAN, email_sent \in sends :
    /\ initiate_bootstrap(token, email, smtp_ok, email_sent, "111111")
    /\ UNCHANGED rateVars

InitiateBootstrap == InitiateBootstrapOn(BootEmails, {TRUE})

VerifyBootstrapOtpOn(emails) ==
  \E email \in emails, otp \in Codes : verify_bootstrap_otp_route(email, otp)

VerifyBootstrapOtp == VerifyBootstrapOtpOn(BootEmails)

SetupFirstTimePassword ==
  \E t \in Signed, pw \in Passwords, confirm \in Passwords :
    setup_first_time_password(t, pw, confirm)

Verify2faSetup ==
  \E t \in Signed, code \in TotpCodes : verify_2fa_setup(t, code)

\* the clock of the bootstrap specification
BootTicks == 1

BootTick == now < BootTicks /\ Tick

NextBoot ==
  \/ InitiateBootstrap \/ VerifyBootstrapOtp \/ SetupFirstTimePassword
  \/ Verify2faSetup \/ BootTick

SpecBoot == InitBoot /\ [][NextBoot]_vars

\* C1 (no double bootstrap): of the bootstrap flows started while the system was
\* locked, at most one verify_2fa_setup call flips a user to role=admin, status=active.
C1_AtMostOneFirstAdmin == Cardinality(ActiveAdmins) <= 1

\* a second admin was just activated by verify_2fa_setup while another was active
C1_SecondActivation ==
  /\ res.op = "verify_2fa_setup" /\ res.ok
  /\ Cardinality(ActiveAdmins) = 2

\* Specification SpecBootOne: the bootstrap flow for one operator's email, restarted
\* at will
NextBootOne ==
  \/ InitiateBootstrapOn({"a@x"}, BOOLEAN) \/ VerifyBootstrapOtpOn({"a@x"})
  \/ SetupFirstTimePassword \/ Verify2faSetup \/ BootTick

SpecBootOne == InitBoot /\ [][NextBootOne]_vars

\* Specification SpecBootRetry: the same flow with the clock running past the
\* lifetime of the setup tokens
NextBootRetry ==
  \/ InitiateBootstrapOn({"a@x"}, {TRUE}) \/ VerifyBootstrapOtpOn({"a@x"})
  \/ SetupFirstTimePassword \/ Verify2faSetup \/ Tick

SpecBootRetry == InitBoot /\ [][NextBootRetry]_vars

\* the signed, unexpired 2FA-setup tokens of an email whose user still awaits 2FA
Usable2faSetupTokens(email) ==
  {s \in Signed : /\ decode_temp_token_ok(s) /\ Get(s, "purpose") = "2fa_setup"
                  /\ Get(s, "email") = email
                  /\ UserStateOkFor2fa(GetInt(s, "user_id"))}

\* C27 (bootstrap never dead-ends): on a locked system, when the holder of an
\* unexpired admin-setup token sets a valid, confirmed password, the call succeeds
\* or an unexpired 2FA-setup token for that email exists with which the flow can be
\* completed: the operator is never left without a way to reach the unlocked state.
C27_BootstrapNeverDeadEnds ==
  [][\A t \in Signed :
       (/\ res'.op = "setup_first_time_password"
        /\ is_system_locked
        /\ decode_temp_token_ok(t) /\ Get(t, "purpose") = "admin_setup"
        /\ setup_first_time_password(t, "Str0ng!Passw0rd99", "Str0ng!Passw0rd99"))
         => (res'.ok \/ Usable2faSetupTokens(Get(t, "email")) # {})]_vars

\* a bootstrap OTP that a matching code would still verify
LiveBootstrapOtp(o) ==
  o.otp_type = "bootstrap" /\ ~o.used /\ ~(now > o.expires_at) /\ o.attempts < 3

\* C11 (verifyBootstrapOtp re-checks the lock): a verify-otp call made while an
\* active admin exists fails, issues no temporary token and leaves the OTP rows
\* alone, whatever the email and code, a matching live OTP included.
C11_VerifyOtpRechecksLock ==
  [][\A email \in BootEmails, otp \in Codes :
       (~is_system_locked /\ verify_bootstrap_otp_route(email, otp))
         => (~res'.ok /\ res'.why = "not_locked" /\ issued' = issued /\ otps' = otps)]_vars

\* a verify-otp call was just refused for the lock although a live OTP with a
\* code the callers send is stored
C11_Witness ==
  /\ res.op = "verify_bootstrap_otp" /\ res.why = "not_locked"
  /\ ~is_system_locked
  /\ \E o \in otps : LiveBootstrapOtp(o) /\ o.code \in Codes /\ o.email \in BootEmails

IsActiveAdmin(user) == user.exists /\ user.role = "admin" /\ user.status = "active"

TempTokensFor(purpose) ==
  {t \in Signed : Get(t, "type") = "temporary" /\ Get(t, "purpose") = purpose}

\* one step of the bootstrap flow keeps the order: a user turns active admin only in
\* a successful verify_2fa_setup holding a 2fa_setup token for that user; a user row
\* and its 2fa_setup token appear only in a successful setup_first_time_password
\* holding an admin_setup token for that email; an admin_setup token appears only in
\* a successful verify_bootstrap_otp consuming an OTP of that email (one that a
\* successful initiate_bootstrap delivered, when delivered is asked for); an OTP is
\* stored only by initiate_bootstrap; no step accepts the token of another step
StepInOrder(delivered) ==
  /\ \A u \in UserIds :
       (IsActiveAdmin(users'[u]) /\ ~IsActiveAdmin(users[u]))
         => /\ res'.op = "verify_2fa_setup" /\ res'.ok
            /\ users[u].exists /\ users[u].status = "pending_2fa"
            /\ \E t \in TempTokensFor("2fa_setup") :
                  GetInt(t, "user_id") = u /\ Get(t, "email") = users[u].email
  /\ \A u \in UserIds :
       (users'[u].exists /\ ~users[u].exists)
         => /\ res'.op = "setup_first_time_password" /\ res'.ok
            /\ users'[u].status = "pending_2fa"
            /\ \E t \in TempTokensFor("admin_setup") : Get(t, "email") = users'[u].email
  /\ \A t \in Signed' \ Signed :
       /\ Get(t, "purpose") = "2fa_setup"
             => (res'.op = "setup_first_time_password" /\ res'.ok)
       /\ Get(t, "purpose") = "admin_setup"
             => /\ res'.op = "verify_bootstrap_otp" /\ res'.ok
                /\ \E o \in otps :
                      /\ o.email = Get(t, "email") /\ o.otp_type = "bootstrap"
                      /\ ~o.used /\ (delivered => o.sent)
                      /\ [o EXCEPT !.used = TRUE] \in otps'
  /\ \A o \in otps' \ otps :
       (o.otp_type = "bootstrap" /\ ~o.used /\ o.attempts = 0)
         => (res'.op = "initiate_bootstrap" /\ res'.why \in {"ok", "send_failed"})
  /\ \A t \in Signed, pw \in Passwords, code \in TotpCodes :
       /\ (setup_first_time_password(t, pw, pw) /\ res'.ok)
             => t \in TempTokensFor("admin_setup")
       /\ (verify_2fa_setup(t, code) /\ res'.ok)
             => t \in TempTokensFor("2fa_setup")

\* C12 (bootstrap steps cannot be skipped or reordered): a user becomes an active
\* admin only after initiate_bootstrap succeeded, verify_bootstrap_otp succeeded for
\* that email, setup_first_time_password succeeded with an admin_setup token and
\* verify_2fa_setup succeeded with a 2fa_setup token, and a token issued by one step
\* is never accepted by another.
C12_StepsInOrder == [][StepInOrder(TRUE)]_vars

\* the same order, counting an initiate_bootstrap call that stored the OTP but
\* reported a send failure as the first step
C12_StepsInOrderFromStoredOtp == [][StepInOrder(FALSE)]_vars

----------------------------------------------------------------------------
(* Authentication middleware: core/middleware.py.  A path is the sequence  *)
(* of its segments after the leading "/": "/" is <<"">>, "/api/health"     *)
(* is <<"api", "health">>, "//x" is <<"", "x">>.                           *)

public_routes ==
  { <<"">>, <<"docs">>, <<"redoc">>, <<"openapi.json">>, <<"public">>,
    <<"api", "health">>, <<"api", "system-status">>,
    <<"api", "bootstrap">>, <<"api", "bootstrap", "verify-otp">>,
    <<"api", "auth", "login">>, <<"api", "auth", "forgot-password">>,
    <<"api", "auth", "forgot-password", "verify-otp">>,
    <<"api", "auth", "reset-password">>, <<"api", "auth", "verify-invitation">>,
    <<"api", "auth", "collaborator", "set-password">>,
    <<"api", "auth", "first-time-password">>, <<"api", "auth", "verify-2fa-setup">> }

bootstrap_routes ==
  { <<"">>, <<"docs">>, <<"redoc">>, <<"openapi.json">>,
    <<"api", "health">>, <<"api", "system-status">>,
    <<"api", "bootstrap">>, <<"api", "bootstrap", "verify-otp">>,
    <<"api", "auth", "first-time-password">>, <<"api", "auth", "verify-2fa-setup">> }

admin_routes == { <<"api", "admin">> }

editor_write_routes ==
  { <<"api", "workspaces">>, <<"api", "collections">>, <<"api", "environments">>,
    <<"api", "requests">>, <<"api", "notes">>, <<"api", "tasks">> }

\* route + "/" is a prefix of path
UnderRoute(path, route) ==
  Len(path) > Len(route) /\ SubSeq(path, 1, Len(route)) = route

\* path == route or path.startswith(route + "/")
RouteMatch(path, routes) == \E route \in routes : path = route \/ UnderRoute(path, route)

is_public_route(path) == RouteMatch(path, public_routes)

is_bootstrap_route(path) == RouteMatch(path, bootstrap_routes)

\* str.startswith on one segment, for the segments the model uses
SegStartsWith(seg, prefix) ==
  seg = prefix \/ <<seg, prefix>> \in { <<"workspaces-export", "workspaces">> }

\* path.startswith(route) for a route without a trailing slash
StartsWithRoute(path, route) ==
  /\ Len(path) >= Len(route)
  /\ SubSeq(path, 1, Len(route) - 1) = SubSeq(route, 1, Len(route) - 1)
  /\ SegStartsWith(path[Len(route)], route[Len(route)])

\* a check that lets every authenticated role write
check_permissions_AnyRoleWrites(path, method, role) ==
  IF \E route \in admin_routes : UnderRoute(path, route) THEN
    IF role # "admin" THEN "403_admin_required" ELSE "ok"
  ELSE "ok"

\* _check_permissions: "ok" or the reason of the 403
check_permissions(path, method, role) ==
  IF \E route \in admin_routes : UnderRoute(path, route) THEN
    IF role # "admin" THEN "403_admin_required" ELSE "ok"
  ELSE IF \E route \in editor_write_routes : StartsWithRoute(path, route) THEN
    IF method \in {"POST", "PUT", "PATCH", "DELETE"} /\ role \notin {"admin", "editor"}
      THEN "403_editor_required" ELSE "ok"
  ELSE "ok"

NoToken == [type |-> "<no-header>"]

\* the same gate with the public-route check ahead of the lock check
authenticate_request_PublicFirst(path, method, token) ==
  IF is_public_route(path) THEN "pass_public"
  ELSE IF is_system_locked THEN
    IF ~is_bootstrap_route(path) THEN "503_system_locked" ELSE "pass_bootstrap"
  ELSE IF token = NoToken THEN "401_token_required"
  ELSE IF validate_token(token) # "ok" THEN validate_token(token)
  ELSE check_permissions(path, method, GetUser(GetInt(token, "user_id")).role)

\* _authenticate_request (hosted mode): how the request leaves the gate
authenticate_request(path, method, token) ==
  IF is_system_locked THEN
    IF ~is_bootstrap_route(path) THEN "503_system_locked" ELSE "pass_bootstrap"
  ELSE IF is_public_route(path) THEN "pass_public"
  ELSE IF token = NoToken THEN "401_token_required"
  ELSE IF validate_token(token) # "ok" THEN validate_token(token)
  ELSE check_permissions(path, method, GetUser(GetInt(token, "user_id")).role)

\* dispatch: local mode passes everything through
dispatch(path, method, token) ==
  IF app_mode = "local" THEN "pass_local" ELSE authenticate_request(path, method, token)

Passed(outcome) == outcome \in {"ok", "pass_public", "pass_bootstrap", "pass_local"}

----------------------------------------------------------------------------
(* Admin service: api/services/admin_service.py, behind api/routes/admin.py *)

\* rbac.has_permission(role, MANAGE_USERS)
has_manage_users(role) == role = "admin"

\* AdminService.update_collaborator_role
update_collaborator_role(admin_id, collaborator_id, new_role) ==
  IF new_role \notin Roles THEN
    /\ res' = Res("update_collaborator_role", FALSE, "invalid_role", collaborator_id, NoTok)
    /\ UNCHANGED users
  ELSE IF ~GetUser(collaborator_id).exists THEN
    /\ res' = Res("update_collaborator_role", FALSE, "user_not_found", collaborator_id, NoTok)
    /\ UNCHANGED users
  ELSE IF collaborator_id = admin_id THEN
    /\ res' = Audited("update_collaborator_role", FALSE, "self_modification_attempted",
                      collaborator_id, "role_update_failed")
    /\ UNCHANGED users
  ELSE
    /\ users' = [users EXCEPT ![collaborator_id].role = new_role]
    /\ res' = Audited("update_collaborator_role", TRUE, "ok", collaborator_id,
                      "user_role_changed")

\* a removal without the count of active admins
remove_collaborator_NoLastAdminCheck(admin_id, collaborator_id) ==
  IF ~GetUser(collaborator_id).exists THEN
    /\ res' = Res("remove_collaborator", FALSE, "user_not_found", collaborator_id, NoTok)
    /\ UNCHANGED users
  ELSE IF collaborator_id = admin_id THEN
    /\ res' = Audited("remove_collaborator", FALSE, "self_removal_attempted",
                      collaborator_id, "user_removal_failed")
    /\ UNCHANGED users
  ELSE
    /\ users' = [users EXCEPT ![collaborator_id] = NoUser]
    /\ res' = Audited("remove_collaborator", TRUE, "ok", collaborator_id, "user_removed")

\* AdminService.remove_collaborator
remove_collaborator(admin_id, collaborator_id) ==
  IF ~GetUser(collaborator_id).exists THEN
    /\ res' = Res("remove_collaborator", FALSE, "user_not_found", collaborator_id, NoTok)
    /\ UNCHANGED users
  ELSE IF collaborator_id = admin_id THEN
    /\ res' = Audited("remove_collaborator", FALSE, "self_removal_attempted",
                      collaborator_id, "user_removal_failed")
    /\ UNCHANGED users
  ELSE IF users[collaborator_id].role = "admin" /\ Cardinality(ActiveAdmins) <= 1 THEN
    /\ res' = Audited("remove_collaborator", FALSE, "last_admin_protection",
                      collaborator_id, "user_removal_failed")
    /\ UNCHANGED users
  ELSE
    /\ users' = [users EXCEPT ![collaborator_id] = NoUser]
    /\ res' = Audited("remove_collaborator", TRUE, "ok", collaborator_id, "user_removed")

\* a PATCH or DELETE /api/admin/collaborators/{id} passes the middleware, which
\* leaves its view of the caller in request.state.user
AdminRequestOn(p, targets, roles) ==
  \E token \in Signed, op \in {"update_role", "remove"}, target \in targets,
     new_role \in roles \cup {"owner"} :
    LET path == <<"api", "admin", "collaborators", StrOfInt(target)>>
        out  == dispatch(path, IF op = "remove" THEN "DELETE" ELSE "PATCH", token)
        uid  == GetInt(token, "user_id")
    IN
    /\ procs[p].pc = "idle"
    /\ op = "remove" => new_role = "owner"
    /\ IF out = "ok" THEN
         /\ procs' = [procs EXCEPT ![p] =
                        [pc |-> "handler", op |-> op, uid |-> uid,
                         role |-> GetUser(uid).role, target |-> target,
                         arg |-> new_role, seen |-> 0, email |-> NoneS]]
         /\ UNCHANGED res
       ELSE
         /\ res' = Res("admin_request", FALSE,
                       IF out = "pass_local" THEN "401_authentication_required" ELSE out,
                       uid, NoTok)
         /\ UNCHANGED procs
    /\ UNCHANGED <<envVars, rateVars, hist, dbVars, now, issued>>

AdminRequest(p) == AdminRequestOn(p, UserIds, Roles)

\* the route handler of PATCH /api/admin/collaborators/{id}
UpdateCollaboratorRole(p) ==
  LET pr == procs[p] IN
  /\ pr.pc = "handler" /\ pr.op = "update_role"
  /\ IF ~has_manage_users(pr.role) THEN
       /\ res' = Res("update_collaborator_role", FALSE, "403_access_denied", pr.target, NoTok)
       /\ UNCHANGED users
     ELSE IF app_mode = "local" THEN
       /\ res' = Res("update_collaborator_role", FALSE, "400_local_mode", pr.target, NoTok)
       /\ UNCHANGED users
     ELSE IF ~GetUser(pr.uid).exists THEN
       /\ res' = Res("update_collaborator_role", FALSE, "404_admin_not_found", pr.target, NoTok)
       /\ UNCHANGED users
     ELSE update_collaborator_role(pr.uid, pr.target, pr.arg)
  /\ procs' = [procs EXCEPT ![p] = Idle]
  /\ UNCHANGED <<envVars, rateVars, hist, now, nextId, otps, invitations, issued>>

\* the route handler of DELETE /api/admin/collaborators/{id}
RemoveCollaborator(p) ==
  LET pr == procs[p] IN
  /\ pr.pc = "handler" /\ pr.op = "remove"
  /\ IF ~has_manage_users(pr.role) THEN
       /\ res' = Res("remove_collaborator", FALSE, "403_access_denied", pr.target, NoTok)
       /\ UNCHANGED users
     ELSE IF app_mode = "local" THEN
       /\ res' = Res("remove_collaborator", FALSE, "400_local_mode", pr.target, NoTok)
       /\ UNCHANGED users
     ELSE IF ~GetUser(pr.uid).exists THEN
       /\ res' = Res("remove_collaborator", FALSE, "404_admin_not_found", pr.target, NoTok)
       /\ UNCHANGED users
     ELSE remove_collaborator(pr.uid, pr.target)
  /\ procs' = [procs EXCEPT ![p] = Idle]
  /\ UNCHANGED <<envVars, rateVars, hist, now, nextId, otps, invitations, issued>>

----------------------------------------------------------------------------
(* Specification SpecAdmin: an unlocked hosted system with two admins that *)
(* each completed a bootstrap flow (and so hold session tokens carrying    *)
(* user_id) and one editor; admin requests are served concurrently.        *)

\* the session token verify_2fa_setup returned to user id at time t
BootstrapSession(id, email, t) ==
  create_token([user_id |-> id, email |-> email, role |-> "admin"], t)

InitAdmin ==
  /\ app_mode = "hosted"
  /\ tzOffset = 0
  /\ now = 0
  /\ users = [i \in UserIds |->
                IF i = 1 THEN [NewUser("a@x", "admin", "active") EXCEPT !.tfa = TRUE]
                ELSE IF i = 2 THEN [NewUser("b@x", "admin", "active") EXCEPT !.tfa = TRUE]
                ELSE IF i = 3 THEN NewUser("c@x", "editor", "active")
                ELSE NoUser]
  /\ nextId = MaxUsers + 1
  /\ otps = {}
  /\ invitations = {}
  /\ issued = { [tok |-> BootstrapSession(1, "a@x", 0), by |-> "create_token"],
                [tok |-> BootstrapSession(2, "b@x", 0), by |-> "create_token"] }
  /\ procs = NoProcs
  /\ res = NoRes
  /\ hist = NoHist
  /\ rateAttempts = NoAttempts
  /\ lastCheck = NoCheck

NextAdmin ==
  \/ \E p \in Procs : AdminRequest(p)
  \/ \E p \in Procs : UpdateCollaboratorRole(p)
  \/ \E p \in Procs : RemoveCollaborator(p)

SpecAdmin == InitAdmin /\ [][NextAdmin]_vars

\* C2 (at least one active admin once unlocked): under any interleaving of
\* removeCollaborator and updateCollaboratorRole calls made by admins, some user
\* still has role=admin and status=active.
C2_ActiveAdminRemains == ActiveAdmins # {}

\* rbac.has_permission(role, INVITE_USERS)
has_invite_users(role) == role = "admin"

invitation_expiry == 3      \* timedelta(hours=24)

\* invitation ids a specification hands out
MaxInvitations == 2

\* the unaccepted, unexpired invitations of an email
PendingInvitations(email) ==
  {i \in invitations : i.email = email /\ ~i.accepted /\ i.expires_at > now}

\* the integer primary key SQLite gives the next row
NextInvitationId ==
  IF invitations = {} THEN 1
  ELSE 1 + (CHOOSE n \in {i.id : i \in invitations} :
              \A m \in {i.id : i \in invitations} : m <= n)

\* POST /api/admin/invite up to the insert: the middleware, the route's checks and
\* the reads of AdminService.invite_user
InviteCheckOn(p, emails, roles) ==
  \E token \in Signed, email \in emails, role \in roles :
    LET out == dispatch(<<"api", "admin", "invite">>, "POST", token)
        uid == GetInt(token, "user_id")
    IN
    /\ procs[p].pc = "idle"
    /\ IF out # "ok" THEN
         /\ res' = Res("admin_request", FALSE,
                       IF out = "pass_local" THEN "401_authentication_required" ELSE out,
                       uid, NoTok)
         /\ UNCHANGED procs
       ELSE IF ~has_invite_users(GetUser(uid).role) THEN
         /\ res' = Res("invite_user", FALSE, "403_access_denied", 0, NoTok)
         /\ UNCHANGED procs
       ELSE IF role \notin Roles THEN
         /\ res' = Res("invite_user", FALSE, "invalid_role", 0, NoTok)
         /\ UNCHANGED procs
       ELSE IF UserIdsByEmail(email) # {} THEN
         /\ res' = Audited("invite_user", FALSE, "user_exists", 0, "user_invite_failed")
         /\ UNCHANGED procs
       ELSE IF Cardinality(PendingInvitations(email)) > 1 THEN
         /\ res' = Res("invite_user", FALSE, "500_multiple_results", 0, NoTok)
         /\ UNCHANGED procs
       ELSE IF PendingInvitations(email) # {} THEN
         /\ res' = Audited("invite_user", FALSE, "invitation_exists", 0,
                           "user_invite_failed")
         /\ UNCHANGED procs
       ELSE
         /\ procs' = [procs EXCEPT ![p] =
                        [Idle EXCEPT !.pc = "invite_insert", !.op = "invite",
                                     !.uid = uid, !.arg = role, !.email = email]]
         /\ UNCHANGED res
    /\ UNCHANGED <<envVars, rateVars, hist, dbVars, now, issued>>

\* invite_user, lines 88-103: the Invitation row is added and committed
InviteInsert(p) ==
  LET pr == procs[p] IN
  /\ pr.pc = "invite_insert"
  /\ NextInvitationId <= MaxInvitations
  /\ invitations' = invitations \cup
       {[id |-> NextInvitationId, email |-> pr.email, role |-> pr.arg,
         invited_by |-> pr.uid, code |-> "111111",
         expires_at |-> now + invitation_expiry, accepted |-> FALSE]}
  /\ procs' = [procs EXCEPT ![p].pc = "invite_send", ![p].seen = NextInvitationId]
  /\ hist' = [hist EXCEPT ![NextInvitationId].fails = 0]
  /\ UNCHANGED <<envVars, rateVars, now, users, nextId, otps, issued, res>>

\* a send whose failure leaves the row in the table
InviteSendOn_KeepRow(p, sends) ==
  LET pr == procs[p] IN
  /\ pr.pc = "invite_send"
  /\ \E sent \in sends :
       /\ res' = IF sent THEN Audited("invite_user", TRUE, "ok", pr.seen, "user_invited")
                 ELSE Audited("invite_user", FALSE, "email_send_error", 0,
                              "user_invite_failed")
       /\ UNCHANGED invitations
  /\ procs' = [procs EXCEPT ![p] = Idle]
  /\ UNCHANGED <<envVars, rateVars, hist, now, users, nextId, otps, issued>>

\* invite_user, lines 105-148: the email is sent, or the send raises and the row
\* is deleted again
InviteSendOn(p, sends) ==
  LET pr == procs[p] IN
  /\ pr.pc = "invite_send"
  /\ \E sent \in sends :
       IF sent THEN
         /\ res' = Audited("invite_user", TRUE, "ok", pr.seen, "user_invited")
         /\ UNCHANGED invitations
       ELSE
         /\ invitations' = {i \in invitations : i.id # pr.seen}
         /\ res' = Audited("invite_user", FALSE, "email_send_error", 0,
                           "user_invite_failed")
  /\ procs' = [procs EXCEPT ![p] = Idle]
  /\ UNCHANGED <<envVars, rateVars, hist, now, users, nextId, otps, issued>>

\* Specification SpecInvite: the same system, with invitations sent by two workers
\* and role updates and removals served by one
InviteEmails == {"c@x", "d@x"}

InviteTicks == 1

InviteTick ==
  /\ now < InviteTicks
  /\ now' = now + 1
  /\ UNCHANGED <<envVars, rateVars, hist, dbVars, issued, procs, res>>

NextInvite ==
  \/ \E p \in Procs : InviteCheckOn(p, InviteEmails, {"editor", "owner"})
  \/ \E p \in Procs : InviteInsert(p)
  \/ \E p \in Procs : InviteSendOn(p, BOOLEAN)
  \/ AdminRequestOn(1, {3}, {"viewer"})
  \/ UpdateCollaboratorRole(1)
  \/ RemoveCollaborator(1)
  \/ InviteTick

SpecInvite == InitAdmin /\ [][NextInvite]_vars

\* the rejections made by the routes before the service is called
RouteRejections == {"403_access_denied", "400_local_mode", "404_admin_not_found"}

AdminServiceOps == {"invite_user", "update_collaborator_role", "remove_collaborator"}

\* C19 (every call is audited): every call of invite_user, update_collaborator_role
\* or remove_collaborator that returns has written an audit record, on success and
\* on every rejection.
C19_EveryCallAudited ==
  (res.op \in AdminServiceOps /\ res.why \notin RouteRejections) => res.audit # NoneS

\* C20 (one pending invitation per email): for every email at most one unaccepted,
\* unexpired invitation is stored.
C20_OnePendingInvitation ==
  \A email \in InviteEmails : Cardinality(PendingInvitations(email)) <= 1

\* AdminService.verify_invitation
verify_invitation(email, otp_code) ==
  LET rows == {i \in invitations : i.email = email /\ ~i.accepted} IN
  IF Cardinality(rows) > 1 THEN
    /\ res' = Res("verify_invitation", FALSE, "500_multiple_results", 0, NoTok)
    /\ UNCHANGED <<issued, hist>>
  ELSE IF rows = {} THEN
    /\ res' = Audited("verify_invitation", FALSE, "no_invitation", 0,
                      "invitation_verification_failed")
    /\ UNCHANGED <<issued, hist>>
  ELSE LET invitation == CHOOSE i \in rows : TRUE IN
    IF now > invitation.expires_at THEN
      /\ res' = Audited("verify_invitation", FALSE, "invitation_expired", invitation.id,
                        "invitation_verification_failed")
      /\ UNCHANGED <<issued, hist>>
    ELSE IF invitation.code # otp_code THEN
      /\ res' = Audited("verify_invitation", FALSE, "invalid_otp", invitation.id,
                        "invitation_verification_failed")
      /\ hist' = [hist EXCEPT ![invitation.id].fails = @ + 1]
      /\ UNCHANGED issued
    ELSE
      LET tok == create_temp_token(
                   [email |-> email, role |-> invitation.role,
                    invitation_id |-> invitation.id, type |-> "collaborator_setup"],
                   2, now) IN        \* expires_minutes=30
      /\ AddToken(tok, "create_temp_token")
      /\ res' = [Audited("verify_invitation", TRUE, "ok", invitation.id,
                         "invitation_verified") EXCEPT !.tok = tok]
      /\ UNCHANGED hist

\* Specification SpecAccept: one admin invites d@x as editor, the invitee submits
\* codes, and time passes until invitations expire
MaxGuesses == 4

VerifyInvitation ==
  /\ \E otp_code \in Codes :
       /\ verify_invitation("d@x", otp_code)
       /\ \A i \in invitations : hist'[i.id].fails <= MaxGuesses
  /\ UNCHANGED <<envVars, rateVars, now, dbVars, procs>>

NextAccept ==
  \/ InviteCheckOn(1, {"d@x"}, {"editor"})
  \/ InviteInsert(1)
  \/ InviteSendOn(1, BOOLEAN)
  \/ VerifyInvitation
  \/ Tick

SpecAccept == InitAdmin /\ [][NextAccept]_vars

\* the unaccepted invitation of an email that was created last and is within its
\* lifetime, as a set
NewestLiveInvitation(email) ==
  {i \in invitations :
     /\ i.email = email /\ ~i.accepted /\ now <= i.expires_at
     /\ \A j \in invitations : j.email = email => j.id <= i.id}

C21_NewInviteAfterExpiry ==
  [][(/\ InviteInsert(1)
      /\ \E old \in invitations : old.email = procs[1].email /\ old.expires_at <= now)
       => Cardinality({i \in invitations' : /\ i.email = procs[1].email /\ ~i.accepted
                                              /\ i.expires_at > now}) = 1]_vars

\* C22 (a failed send rolls the invitation back): when invite_user returns failure
\* because the send raised, the row this call inserted is gone and the other rows
\* are as they were, so the email has no pending invitation left from this call.
C22_SendFailureRollsBack ==
  [][\A p \in Procs :
       (res'.why = "email_send_error" /\ InviteSendOn(p, BOOLEAN))
         => /\ \A i \in invitations' : i.id # procs[p].seen
            /\ invitations' = {i \in invitations : i.id # procs[p].seen}
            /\ \E i \in invitations : i.id = procs[p].seen /\ i.email = procs[p].email]_vars

\* a send has just failed and its email has no pending invitation
C22_Witness ==
  /\ res.op = "invite_user" /\ res.why = "email_send_error"
  /\ PendingInvitations("d@x") = {}
  /\ \A p \in Procs : procs[p].pc = "idle"

\* C29 (guesses against an invitation code are bounded): verify_invitation never
\* succeeds for an invitation for which three wrong codes were submitted.
C29_InvitationGuessesBounded ==
  (res.op = "verify_invitation" /\ res.ok) => hist[res.uid].fails < 3

\* Specification SpecRemove: the same system, with removals of any of the three
\* users and demotions to viewer
NextRemove ==
  \/ \E p \in Procs : AdminRequestOn(p, {1, 2, 3}, {"viewer"})
  \/ \E p \in Procs : UpdateCollaboratorRole(p)
  \/ \E p \in Procs : RemoveCollaborator(p)

SpecRemove == InitAdmin /\ [][NextRemove]_vars

\* C18 (last-admin protection): a removal whose target is the only active admin
\* fails and deletes nothing, whoever the caller is; a removal whose target is the
\* caller fails and deletes nothing.
C18_LastAdminProtected ==
  [][\A p \in Procs :
       RemoveCollaborator(p) =>
         /\ ActiveAdmins = {procs[p].target} => (~res'.ok /\ users' = users)
         /\ procs[p].target = procs[p].uid => (~res'.ok /\ users' = users)]_vars

\* the removal of the only active admin was just refused by the count of active
\* admins: the caller was another account, admitted while it still was an admin
C18_Witness ==
  /\ res.op = "remove_collaborator" /\ res.why = "last_admin_protection"
  /\ ActiveAdmins = {res.uid}

----------------------------------------------------------------------------
(* Authentication service: api/services/auth_service.py *)

\* AuthService._is_account_locked (a naive locked_until is read as UTC)
is_account_locked(user) == user.locked_until # 0 /\ now < user.locked_until

\* a threshold that locks one failure late
reaches_max_OffByOne(attempts) == attempts > max_login_attempts

\* user.failed_login_attempts >= settings.max_login_attempts
reaches_max(attempts) == attempts >= max_login_attempts

\* two_factor_service.verify_backup_code: the stored string must parse as JSON and
\* hold the code unused; the comma-joined bcrypt hashes bootstrap stores do not parse
verify_backup_code(stored, code) ==
  <<stored, code>> \in { <<"json[BACKUP01]", "BACKUP01">> }

\* authenticate_user up to its decision, on the row it loaded
auth_outcome(user, password, totp_code, backup_code) ==
  IF ~user.exists THEN "invalid_email"
  ELSE IF is_account_locked(user) THEN "account_locked"
  ELSE IF user.status # "active" THEN "account_suspended"
  ELSE IF ~verify_password(password, user.hashed_password) THEN "invalid_password"
  ELSE IF ~user.tfa THEN "ok"
  ELSE IF totp_code = NoneS /\ backup_code = NoneS THEN "requires_2fa"
  ELSE IF totp_code # NoneS THEN
    IF ~verify_totp(totp_code) THEN "invalid_2fa_totp" ELSE "ok"
  ELSE IF user.backup_codes = NoneS THEN "no_backup_codes"
  ELSE IF ~verify_backup_code(user.backup_codes, backup_code) THEN "invalid_backup_code"
  ELSE "ok"

\* the row after session.commit(): the attributes the call assigned, computed
\* from the failed_login_attempts it loaded (seen), written over the stored row
commit_row(row, seen, why) ==
  IF why = "invalid_password" THEN
    [row EXCEPT !.failed = seen + 1,
                !.locked_until = IF reaches_max(seen + 1)
                                   THEN now + login_lockout_duration ELSE @]
  ELSE IF why \in {"invalid_2fa_totp", "invalid_backup_code"} THEN
    [row EXCEPT !.failed = seen + 1]
  ELSE IF why = "ok" THEN
    [row EXCEPT !.failed = 0, !.locked_until = 0]
  ELSE row

\* select(User).where(User.email == email): the id, or 0
UserIdOfEmail(email) ==
  IF UserIdsByEmail(email) = {} THEN 0 ELSE CHOOSE i \in UserIdsByEmail(email) : TRUE

\* the history after a call for user uid ended with `why`
hist_after(uid, why) ==
  IF uid = 0 THEN hist
  ELSE [hist EXCEPT
         ![uid].streak = IF why = "invalid_password" THEN @ + 1
                         ELSE IF why \in {"invalid_email", "account_locked",
                                          "account_suspended"} THEN @
                         ELSE 0,
         ![uid].fails  = IF why \in {"invalid_password", "invalid_2fa_totp",
                                     "invalid_backup_code"} THEN @ + 1
                         ELSE IF why = "ok" THEN 0 ELSE @]

\* the session token of a successful login
login_token(uid) ==
  create_token([sub |-> StrOfInt(uid), email |-> users[uid].email,
                role |-> users[uid].role], now)

\* failed_login_attempts is kept below this in the model
MaxFailed == 6

\* AuthService.authenticate_user, served without overlap; the session token goes
\* back to the caller in the response
authenticate_user(email, password, totp_code, backup_code) ==
  LET uid  == UserIdOfEmail(email)
      user == GetUser(uid)
      why  == auth_outcome(user, password, totp_code, backup_code)
  IN
  /\ user.failed < MaxFailed
  /\ users' = IF uid = 0 THEN users
              ELSE [users EXCEPT ![uid] = commit_row(user, user.failed, why)]
  /\ hist' = hist_after(uid, why)
  /\ res' = Res("authenticate_user", why = "ok", why, uid,
                IF why = "ok" THEN login_token(uid) ELSE NoTok)
  /\ UNCHANGED <<envVars, rateVars, now, nextId, otps, invitations, procs>>

\* POST /api/auth/login behind the middleware; in local mode the route answers
\* without looking at the credentials
login(email, password, totp_code, backup_code) ==
  LET out == dispatch(<<"api", "auth", "login">>, "POST", NoToken) IN
  IF ~Passed(out) THEN
    /\ res' = Res("login", FALSE, out, 0, NoTok)
    /\ UNCHANGED <<envVars, rateVars, hist, now, dbVars, procs>>
  ELSE IF app_mode = "local" THEN
    /\ res' = Res("login", TRUE, "local_mode_bypass", 0, NoTok)
    /\ UNCHANGED <<envVars, rateVars, hist, now, dbVars, procs>>
  ELSE authenticate_user(email, password, totp_code, backup_code)

----------------------------------------------------------------------------
(* Specification SpecLogin: logins served one after the other against an  *)
(* unlocked hosted system: a bootstrapped admin (2FA on), an invited       *)
(* editor (2FA off) and an admin still pending 2FA.                        *)

ThePassword == "Str0ng!Passw0rd99"

LoginUsers ==
  [i \in UserIds |->
     IF i = 1 THEN [NewUser("a@x", "admin", "active") EXCEPT
                      !.tfa = TRUE, !.backup_codes = "csv-of-bcrypt",
                      !.hashed_password = hash_password(ThePassword)]
     ELSE IF i = 2 THEN [NewUser("b@x", "editor", "active") EXCEPT
                      !.hashed_password = hash_password(ThePassword)]
     ELSE IF i = 3 THEN [NewUser("c@x", "admin", "pending_2fa") EXCEPT
                      !.hashed_password = hash_password(ThePassword)]
     ELSE NoUser]

InitLogin ==
  /\ app_mode = "hosted"
  /\ tzOffset = 0
  /\ now = 0
  /\ users = LoginUsers
  /\ nextId = MaxUsers + 1
  /\ otps = {}
  /\ invitations = {}
  /\ issued = {}
  /\ procs = NoProcs
  /\ res = NoRes
  /\ hist = NoHist
  /\ rateAttempts = NoAttempts
  /\ lastCheck = NoCheck

\* the clock of the login specifications
LoginTicks == 3

\* POST /api/auth/login; the client does not use the token it gets
LoginOn(emails, passwords, totp_codes, backup_codes) ==
  \E email \in emails, password \in passwords,
     totp_code \in totp_codes, backup_code \in backup_codes :
    /\ login(email, password, totp_code, backup_code)
    /\ UNCHANGED issued

Login ==
  LoginOn(Emails \cup {"nobody@x"}, {ThePassword, "wrong"},
          TotpCodes \cup {NoneS}, {NoneS, "BACKUP01"})

LoginTick == now < LoginTicks /\ Tick

NextLogin == Login \/ LoginTick

SpecLogin == InitLogin /\ [][NextLogin]_vars

\* a call of authenticate_user for user u completed in this step
LoginStepFor(u) ==
  /\ res'.op = "authenticate_user" /\ res'.uid = u
  /\ (res' # res \/ users' # users \/ hist' # hist)

\* C3 (lockout threshold): the call that makes max_login_attempts consecutive
\* password failures on an account leaves locked_until in the future, and while
\* locked_until is in the future every call for that account is rejected as
\* locked and changes nothing, whatever password it carries.
C3_LockoutThreshold ==
  [][\A u \in UserIds :
       /\ (hist'[u].streak # hist[u].streak /\ hist'[u].streak >= max_login_attempts)
            => users'[u].locked_until > now
       /\ (LoginStepFor(u) /\ users[u].exists /\ users[u].locked_until > now)
            => (~res'.ok /\ res'.why = "account_locked" /\ users' = users
                /\ res'.tok = NoTok)]_vars

\* an account with max_login_attempts consecutive password failures behind it was
\* just refused as locked
C3_Witness ==
  /\ res.op = "authenticate_user" /\ res.why = "account_locked"
  /\ res.uid # 0 /\ hist[res.uid].streak >= max_login_attempts
  /\ users[res.uid].locked_until > now

\* C7 (2FA failures count like password failures): a call that fails on the TOTP
\* code or the backup code leaves the row exactly as a password failure would:
\* counter plus one and, at the maximum, locked_until set.
C7_TwoFactorFailureLikePassword ==
  [][\A u \in UserIds :
       (LoginStepFor(u) /\ res'.why \in {"invalid_2fa_totp", "invalid_backup_code"})
         => users'[u] = commit_row(users[u], users[u].failed, "invalid_password")]_vars

\* the counter half of C7 alone: a 2FA failure adds one to the counter
C7_TwoFactorFailureCounts ==
  [][\A u \in UserIds :
       (LoginStepFor(u) /\ res'.why \in {"invalid_2fa_totp", "invalid_backup_code"})
         => users'[u].failed = users[u].failed + 1]_vars

----------------------------------------------------------------------------
(* Specification SpecLoginRace: the same logins served by two workers.  A  *)
(* call loads the row (auth_service.py:50-51), verifies the credentials on *)
(* what it loaded, and later commits the attributes it assigned (120, 132, *)
(* 167, 191); another call may run in between.                             *)

Committing == {"invalid_password", "invalid_2fa_totp", "invalid_backup_code", "ok"}

\* the counter and the clock stay below these in the concurrent specification
RaceFailed == 2
RaceTicks  == 1

\* the call loads the user row and decides
LoginRead(p) ==
  \E email \in Emails \cup {"nobody@x"}, password \in {ThePassword, "wrong"},
     totp_code \in TotpCodes \cup {NoneS}, backup_code \in {NoneS, "BACKUP01"} :
    LET uid  == UserIdOfEmail(email)
        user == GetUser(uid)
        why  == auth_outcome(user, password, totp_code, backup_code)
    IN
    /\ procs[p].pc = "idle"
    /\ app_mode = "hosted" /\ ~is_system_locked
    /\ user.failed < RaceFailed
    /\ IF why \in Committing THEN
         /\ procs' = [procs EXCEPT ![p] =
                        [pc |-> "commit", op |-> "login", uid |-> uid, role |-> NoneS,
                         target |-> 0, arg |-> why, seen |-> user.failed,
                         email |-> NoneS]]
         /\ UNCHANGED <<res, hist>>
       ELSE
         /\ res' = Res("authenticate_user", FALSE, why, uid, NoTok)
         /\ hist' = hist_after(uid, why)
         /\ UNCHANGED procs
    /\ UNCHANGED <<envVars, rateVars, now, dbVars, issued>>

\* session.commit(): UPDATE user SET <assigned attributes> WHERE id = uid
LoginCommit(p) ==
  LET pr == procs[p] IN
  /\ pr.pc = "commit" /\ pr.op = "login"
  /\ IF ~GetUser(pr.uid).exists THEN
       /\ res' = Res("authenticate_user", FALSE, "500_stale_row", pr.uid, NoTok)
       /\ UNCHANGED <<users, hist>>
     ELSE
       /\ users' = [users EXCEPT ![pr.uid] = commit_row(users[pr.uid], pr.seen, pr.arg)]
       /\ hist' = hist_after(pr.uid, pr.arg)
       /\ res' = Res("authenticate_user", pr.arg = "ok", pr.arg, pr.uid,
                     IF pr.arg = "ok" THEN login_token(pr.uid) ELSE NoTok)
  /\ procs' = [procs EXCEPT ![p] = Idle]
  /\ UNCHANGED <<envVars, rateVars, now, nextId, otps, invitations, issued>>

RaceTick == now < RaceTicks /\ Tick

NextLoginRace ==
  \/ \E p \in Procs : LoginRead(p)
  \/ \E p \in Procs : LoginCommit(p)
  \/ RaceTick

SpecLoginRace == InitLogin /\ [][NextLoginRace]_vars

\* C6 (no lost increments): once the calls in flight have completed, the counter
\* of every account equals the number of failed attempts processed against it
\* since its last successful login.
C6_NoLostIncrement ==
  (\A p \in Procs : procs[p].pc = "idle")
    => \A u \in UserIds : users[u].exists => users[u].failed = hist[u].fails

----------------------------------------------------------------------------
(* Specification SpecGate: the middleware gate on a hosted system that is  *)
(* unlocked at first and may lose its admins (overlapping admin requests), *)
(* asked for allow-listed, public, protected and admin paths.              *)

Paths ==
  { <<"">>, <<"api", "health">>, <<"api", "bootstrap">>,
    <<"api", "auth", "login">>, <<"public", "shared">>, <<"api", "auth", "me">>,
    <<"api", "admin", "collaborators">>, <<"api", "workspaces">>,
    <<"", "api", "admin">> }

Methods == {"GET", "POST"}

\* the outcome of the gate for one request
GateRes(path, token, out) ==
  [op |-> "request", ok |-> Passed(out), why |-> out,
   uid |-> IF out = "ok" THEN GetInt(token, "user_id") ELSE 0,
   tok |-> token, path |-> path, audit |-> NoneS]

\* a request arrives at AuthenticationMiddleware.dispatch
GateOn(paths, methods, tokens) ==
  \E path \in paths, method \in methods, token \in tokens :
    /\ res' = GateRes(path, token, dispatch(path, method, token))
    /\ UNCHANGED <<envVars, rateVars, hist, now, dbVars, issued, procs>>

Gate == GateOn(Paths, Methods, Signed \cup {NoToken})

NextGate ==
  \/ Gate
  \/ \E p \in Procs : AdminRequestOn(p, {1, 2}, {"viewer"})
  \/ \E p \in Procs : UpdateCollaboratorRole(p)
  \/ \E p \in Procs : RemoveCollaborator(p)

SpecGate == InitAdmin /\ [][NextGate]_vars

\* C9 (lock status dominates): in hosted mode, while the system is locked, the
\* gate answers "system locked" to every request whose path is not on the
\* bootstrap allow-list, whatever its method and token and also when the path is
\* on the public allow-list.
C9_LockDominates ==
  (app_mode = "hosted" /\ is_system_locked)
    => \A path \in Paths, method \in Methods, token \in Signed \cup {NoToken} :
         ~is_bootstrap_route(path)
           => authenticate_request(path, method, token) = "503_system_locked"

\* on a locked system a request to a public path that is not a bootstrap path,
\* carrying a signed unexpired session token, was refused as system-locked
C9_Witness ==
  /\ app_mode = "hosted" /\ is_system_locked
  /\ res.op = "request" /\ res.why = "503_system_locked"
  /\ is_public_route(res.path) /\ ~is_bootstrap_route(res.path)
  /\ res.tok # NoToken /\ verify_token_ok(res.tok) /\ Get(res.tok, "type") = "session"

\* Specification SpecRoutes: the gate on an unlocked hosted system, asked for admin,
\* content and other paths by the holders of two session tokens; the second holder
\* is demoted from admin to editor or viewer, or removed, meanwhile
RoutePaths ==
  { <<"api", "admin", "collaborators">>, <<"api", "admin", "">>, <<"api", "admin">>,
    <<"api", "workspaces">>, <<"api", "workspaces", "7">>, <<"api", "workspaces-export">>,
    <<"api", "tasks">>, <<"api", "docs">>, <<"api", "auth", "me">>, <<"api", "health">> }

RouteMethods == {"GET", "OPTIONS", "POST", "DELETE"}

NextRoutes ==
  \/ GateOn(RoutePaths, RouteMethods, Signed)
  \/ AdminRequestOn(1, {2}, {"editor", "viewer"})
  \/ UpdateCollaboratorRole(1)
  \/ RemoveCollaborator(1)

SpecRoutes == InitAdmin /\ [][NextRoutes]_vars

\* the claim's reading of the two route lists and of the methods
UnderAdminPrefix(path) ==
  Len(path) >= 3 /\ <<path[1], path[2]>> = <<"api", "admin">>

OnContentList(path) ==
  /\ Len(path) >= 2 /\ path[1] = "api"
  /\ path[2] \in {"workspaces", "workspaces-export", "collections", "environments",
                   "requests", "notes", "tasks"}

Mutating(method) == method \in {"POST", "PUT", "PATCH", "DELETE"}

CoarseAllows(path, method, role) ==
  \/ UnderAdminPrefix(path) /\ role = "admin"
  \/ OnContentList(path) /\ Mutating(method) /\ role \in {"admin", "editor"}
  \/ OnContentList(path) /\ ~Mutating(method)
  \/ ~UnderAdminPrefix(path) /\ ~OnContentList(path)

\* C23 (coarse route check): in hosted mode on an unlocked system, a request with
\* a valid session token passes the gate iff its path is under the admin prefix
\* and the role is admin, or its path is a content path and its method is mutating
\* and the role is admin or editor, or its path is a content path and its method is
\* safe, or its path is on neither list; a viewer never passes with a mutating
\* method on a content path and a non-admin never passes on an admin path.
C23_CoarseRouteCheck ==
  (app_mode = "hosted" /\ ~is_system_locked)
    => \A path \in RoutePaths, method \in RouteMethods, token \in Signed :
         validate_token(token) = "ok"
           => LET role    == GetUser(GetInt(token, "user_id")).role
                  allowed == Passed(dispatch(path, method, token))
              IN /\ allowed <=> CoarseAllows(path, method, role)
                 /\ (role = "viewer" /\ OnContentList(path) /\ Mutating(method))
                      => ~allowed
                 /\ (role # "admin" /\ UnderAdminPrefix(path)) => ~allowed

\* a viewer holding a valid session token was just refused a mutating request on a
\* content path
C23_Witness ==
  /\ res.op = "request" /\ res.why = "403_editor_required"
  /\ validate_token(res.tok) = "ok"
  /\ GetUser(GetInt(res.tok, "user_id")).role = "viewer"
  /\ OnContentList(res.path)

----------------------------------------------------------------------------
(* Specification SpecMw: session tokens presented to the gate while their  *)
(* users are locked out by failed logins or removed by an admin.  The host *)
(* clock may be set to any time zone: _validate_token compares the stored  *)
(* locked_until (UTC) with datetime.now() (local time).                    *)

\* datetime.now() - datetime.utcnow() of the host, in ticks: UTC-1h, UTC, UTC+1h
TzOffsets == {0 - 6, 0, 6}

InitMw ==
  /\ app_mode = "hosted"
  /\ tzOffset \in TzOffsets
  /\ now = 0
  /\ users = [i \in UserIds |->
                IF i = 1 THEN [NewUser("a@x", "admin", "active") EXCEPT
                                 !.tfa = TRUE, !.backup_codes = "csv-of-bcrypt",
                                 !.hashed_password = hash_password(ThePassword)]
                ELSE IF i = 2 THEN [NewUser("b@x", "admin", "active") EXCEPT
                                 !.tfa = TRUE, !.backup_codes = "csv-of-bcrypt",
                                 !.hashed_password = hash_password(ThePassword)]
                ELSE NoUser]
  /\ nextId = 3
  /\ otps = {}
  /\ invitations = {}
  /\ issued = { [tok |-> BootstrapSession(1, "a@x", 0), by |-> "create_token"],
                [tok |-> BootstrapSession(2, "b@x", 0), by |-> "create_token"] }
  /\ procs = NoProcs
  /\ res = NoRes
  /\ hist = NoHist
  /\ rateAttempts = NoAttempts
  /\ lastCheck = NoCheck

\* the clock of this specification
MwTicks == 3

MwTick == now < MwTicks /\ Tick

NextMw ==
  \/ GateOn({<<"api", "workspaces">>, <<"api", "auth", "login">>}, {"GET"}, Signed)
  \/ LoginOn({"a@x"}, {ThePassword, "wrong"}, {"totp-current"}, {NoneS})
  \/ AdminRequestOn(1, {2}, {"viewer"})
  \/ UpdateCollaboratorRole(1)
  \/ RemoveCollaborator(1)
  \/ MwTick

SpecMw == InitMw /\ [][NextMw]_vars

\* the gate let a token through in this step
GateAccepts == res'.op = "request" /\ res'.why = "ok" /\ res' # res

\* the user a session token names
TokenUser(token) == GetUser(GetInt(token, "user_id"))

\* C8 (only live users are authenticated): when the gate authenticates a request
\* to a non-public route, the user the session token names exists, is active and
\* has no locked_until in the future at that moment.
C8_OnlyLiveUsers ==
  [][GateAccepts =>
       /\ TokenUser(res'.tok).exists
       /\ TokenUser(res'.tok).status = "active"
       /\ ~is_account_locked(TokenUser(res'.tok))]_vars

\* the same on a host whose local time is UTC
C8_OnlyLiveUsersUtcHost ==
  [][(GateAccepts /\ tzOffset = 0) =>
       /\ TokenUser(res'.tok).exists
       /\ TokenUser(res'.tok).status = "active"
       /\ ~is_account_locked(TokenUser(res'.tok))]_vars

----------------------------------------------------------------------------
(* Specification SpecSys: a fresh installation in either mode, with the    *)
(* bootstrap flow, login, the profile route and the admin routes.          *)

\* GET /api/auth/me: the gate, then get_current_user of api/routes/auth.py, which
\* in local mode returns the first admin row and creates one when there is none
GetMe ==
  \E token \in Signed \cup {NoToken} :
    LET out    == dispatch(<<"api", "auth", "me">>, "GET", token)
        admins == {i \in UserIds : users[i].exists /\ users[i].role = "admin"}
    IN
    /\ IF ~Passed(out) THEN
         /\ res' = Res("get_current_user", FALSE, out, 0, NoTok)
         /\ UNCHANGED <<users, nextId>>
       ELSE IF app_mode = "local" THEN
         IF admins # {} THEN
           /\ res' = Res("get_current_user", TRUE, "ok", CHOOSE i \in admins : TRUE, NoTok)
           /\ UNCHANGED <<users, nextId>>
         ELSE
           /\ nextId \in UserIds
           /\ users' = [users EXCEPT ![nextId] =
                          [NewUser("admin@localhost", "admin", "active") EXCEPT
                             !.hashed_password = hash_password("admin")]]
           /\ nextId' = nextId + 1
           /\ res' = Res("get_current_user", TRUE, "created_local_admin", nextId, NoTok)
       ELSE IF token = NoToken THEN
         /\ res' = Res("get_current_user", FALSE, "401_missing_header", 0, NoTok)
         /\ UNCHANGED <<users, nextId>>
       ELSE
         /\ res' = Res("get_current_user", get_current_user_hosted(token) = "ok",
                       get_current_user_hosted(token), 0, NoTok)
         /\ UNCHANGED <<users, nextId>>
    /\ UNCHANGED <<envVars, rateVars, hist, now, otps, invitations, issued, procs>>

InitSys == app_mode \in {"local", "hosted"} /\ InitEmpty

NextSys ==
  \/ InitiateBootstrapOn({"a@x"}, BOOLEAN) \/ VerifyBootstrapOtpOn({"a@x"})
  \/ SetupFirstTimePassword \/ Verify2faSetup
  \/ GetMe
  \/ LoginOn({"a@x"}, {ThePassword, "wrong"}, {"totp-current"}, {NoneS})
  \/ AdminRequestOn(1, {1, 2}, {"viewer"})
  \/ UpdateCollaboratorRole(1)
  \/ RemoveCollaborator(1)

SpecSys == InitSys /\ [][NextSys]_vars

C10_SoleUnlockPathHosted ==
  [][(app_mode = "hosted" /\ is_system_locked /\ ~is_system_locked')
       => (res'.op = "verify_2fa_setup" /\ res'.ok)]_vars

----------------------------------------------------------------------------
(* Specification SpecLock: the lock computed over any User table.           *)

Statuses == {"active", "pending_2fa", "suspended", "locked"}

RowEmails == <<"a@x", "b@x", "c@x", "d@x", "e@x">>

\* the tables with at most one row per id and distinct emails
UserTables ==
  [UserIds -> {NoUser}] \cup
  {tbl \in [UserIds -> {NoUser} \cup {NewUser(e, r, st) :
                           e \in Emails \cup {"d@x"}, r \in Roles, st \in Statuses}] :
     \A i \in UserIds : tbl[i].exists => tbl[i].email = RowEmails[i]}

InitLock ==
  /\ app_mode \in {"local", "hosted"}
  /\ tzOffset = 0
  /\ now = 0
  /\ users \in UserTables
  /\ nextId = MaxUsers + 1
  /\ otps = {}
  /\ invitations = {}
  /\ issued = {}
  /\ procs = NoProcs
  /\ res = NoRes
  /\ hist = NoHist
  /\ rateAttempts = NoAttempts
  /\ lastCheck = NoCheck

\* GET /api/system-status (api/routes/bootstrap.py): locked = is_system_locked
GetSystemStatus ==
  /\ res' = Res("system_status", is_system_locked,
                IF is_system_locked /\ app_mode = "hosted" THEN "requires_bootstrap"
                ELSE "no_bootstrap", 0, NoTok)
  /\ UNCHANGED <<envVars, rateVars, hist, now, dbVars, issued, procs>>

\* GET /api/health (main.py): bootstrap.is_locked = check_bootstrap_state(...)["is_locked"]
GetHealth ==
  /\ res' = Res("health", check_bootstrap_state_is_locked, "healthy", 0, NoTok)
  /\ UNCHANGED <<envVars, rateVars, hist, now, dbVars, issued, procs>>

NextLock == GetSystemStatus \/ GetHealth

SpecLock == InitLock /\ [][NextLock]_vars

\* C13 (the lock is the absence of an active admin): the lock state reported is
\* true exactly when no row has role admin and status active, whatever other rows
\* (non-admins, admins that are pending_2fa, suspended or locked) the table holds.
C13_LockedIffNoActiveAdmin ==
  res.op = "system_status"
    => (res.ok <=> ~\E i \in UserIds :
                      users[i].exists /\ users[i].role = "admin"
                        /\ users[i].status = "active")

\* the lock was reported for a table holding an admin that is not active and an
\* active user that is not an admin
C13_Witness ==
  /\ res.op = "system_status" /\ res.ok
  /\ \E i \in UserIds : users[i].exists /\ users[i].role = "admin"
                           /\ users[i].status # "active"
  /\ \E i \in UserIds : users[i].exists /\ users[i].role # "admin"
                           /\ users[i].status = "active"

----------------------------------------------------------------------------
(* Password reset: api/services/auth_service.py and api/routes/auth.py.    *)
(* forgot_password rows also carry `id`, their order of insertion, since   *)
(* several rows of one email can coexist.                                  *)

ResetRows(email) == {o \in OtpRows(email, "forgot_password") : ~o.used}

AllResetRows == {o \in otps : o.otp_type = "forgot_password"}

\* forgot_password rows a specification may hold at once
MaxResetOtps == 2

NextOtpId == Cardinality(AllResetRows) + 1

\* a service that tells the caller when the email has no active account
initiate_password_reset_Reveal(email, otp, email_sent) ==
  LET ids == UserIdsByEmail(email) IN
  IF ids # {} /\ \A i \in ids : users[i].status = "active" THEN
    /\ Cardinality({o \in otps : o.otp_type = "forgot_password"}) < 2
    /\ otps' = otps \cup
                 {[email |-> email, otp_type |-> "forgot_password", code |-> otp,
                   expires_at |-> now + otp_expiry, attempts |-> 0, used |-> FALSE,
                   sent |-> email_sent,
                   id |-> Cardinality({o \in otps : o.otp_type = "forgot_password"}) + 1]}
    /\ res' = Res("forgot_password", TRUE, "if_the_email_exists", 0, NoTok)
  ELSE
    /\ UNCHANGED otps
    /\ res' = Res("forgot_password", FALSE, "no_such_account", 0, NoTok)

\* AuthService.initiate_password_reset: returns True whatever happens
initiate_password_reset(email, otp, email_sent) ==
  LET ids == UserIdsByEmail(email) IN
  /\ IF ids # {} /\ \A i \in ids : users[i].status = "active" THEN
       /\ Cardinality(AllResetRows) < MaxResetOtps
       /\ otps' = otps \cup
                    {[email |-> email, otp_type |-> "forgot_password", code |-> otp,
                      expires_at |-> now + otp_expiry, attempts |-> 0, used |-> FALSE,
                      sent |-> email_sent, id |-> NextOtpId]}
     ELSE UNCHANGED otps
  /\ res' = Res("forgot_password", TRUE, "if_the_email_exists", 0, NoTok)

\* POST /api/auth/forgot-password behind the middleware
forgot_password(email, otp, email_sent) ==
  LET out == dispatch(<<"api", "auth", "forgot-password">>, "POST", NoToken) IN
  /\ IF ~Passed(out) THEN
       /\ res' = Res("forgot_password", FALSE, out, 0, NoTok)
       /\ UNCHANGED otps
     ELSE IF app_mode = "local" THEN
       /\ res' = Res("forgot_password", TRUE, "local_mode", 0, NoTok)
       /\ UNCHANGED otps
     ELSE initiate_password_reset(email, otp, email_sent)
  /\ UNCHANGED <<envVars, rateVars, hist, now, users, nextId, invitations, issued, procs>>

\* AuthService.verify_password_reset_otp; scalar_one_or_none raises when several
\* unused rows match, and the route turns the exception into a 500
verify_password_reset_otp(email, otp_code) ==
  LET ids  == UserIdsByEmail(email)
      rows == ResetRows(email)
  IN
  IF ids = {} \/ \E i \in ids : users[i].status # "active" THEN
    /\ res' = Res("verify_password_reset_otp", FALSE, "no_active_user", 0, NoTok)
    /\ UNCHANGED <<otps, issued>>
  ELSE IF rows = {} THEN
    /\ res' = Res("verify_password_reset_otp", FALSE, "no_otp_found", 0, NoTok)
    /\ UNCHANGED <<otps, issued>>
  ELSE IF Cardinality(rows) > 1 THEN
    /\ res' = Res("verify_password_reset_otp", FALSE, "500_multiple_results", 0, NoTok)
    /\ UNCHANGED <<otps, issued>>
  ELSE LET rec == FirstRow(rows)
           uid == CHOOSE i \in ids : TRUE
       IN
    IF otp_expired(rec) THEN
      /\ res' = Res("verify_password_reset_otp", FALSE, "otp_expired", uid, NoTok)
      /\ UNCHANGED <<otps, issued>>
    ELSE IF otp_attempts_exhausted(rec) THEN
      /\ res' = Res("verify_password_reset_otp", FALSE, "max_otp_attempts", uid, NoTok)
      /\ UNCHANGED <<otps, issued>>
    ELSE IF rec.code # otp_code THEN
      /\ otps' = (otps \ {rec}) \cup {[rec EXCEPT !.attempts = @ + 1]}
      /\ res' = Res("verify_password_reset_otp", FALSE, "invalid_otp", uid, NoTok)
      /\ UNCHANGED issued
    ELSE
      LET tok == create_reset_token([user_id |-> uid, email |-> email], 3, now) IN
      /\ otps' = (otps \ {rec}) \cup {[rec EXCEPT !.used = TRUE]}
      /\ AddToken(tok, "create_reset_token")
      /\ res' = Res("verify_password_reset_otp", TRUE, "ok", uid, NoTok)

\* POST /api/auth/forgot-password/verify-otp behind the middleware
verify_password_reset_otp_route(email, otp_code) ==
  LET out == dispatch(<<"api", "auth", "forgot-password", "verify-otp">>, "POST", NoToken) IN
  /\ IF ~Passed(out) THEN
       /\ res' = Res("verify_password_reset_otp", FALSE, out, 0, NoTok)
       /\ UNCHANGED <<otps, issued>>
     ELSE IF app_mode = "local" THEN
       /\ res' = Res("verify_password_reset_otp", TRUE, "local_mode", 0, NoTok)
       /\ UNCHANGED <<otps, issued>>
     ELSE verify_password_reset_otp(email, otp_code)
  /\ UNCHANGED <<envVars, rateVars, hist, now, users, nextId, invitations, procs>>

\* AuthService.reset_password; every exception is answered as an invalid token
reset_password(reset_token, new_password) ==
  IF ~decode_reset_token_ok(reset_token) THEN
    /\ res' = Res("reset_password", FALSE, "invalid_or_expired_token", 0, NoTok)
    /\ UNCHANGED users
  ELSE IF GetInt(reset_token, "user_id") = 0 THEN
    /\ res' = Res("reset_password", FALSE, "invalid_reset_token", 0, NoTok)
    /\ UNCHANGED users
  ELSE LET uid == GetInt(reset_token, "user_id") IN
    IF ~GetUser(uid).exists \/ GetUser(uid).status # "active" THEN
      /\ res' = Res("reset_password", FALSE, "user_not_found_or_inactive", uid, NoTok)
      /\ UNCHANGED users
    ELSE IF ~validate_complexity(new_password) THEN
      /\ res' = Res("reset_password", FALSE, "weak_password", uid, NoTok)
      /\ UNCHANGED users
    ELSE
      /\ users' = [users EXCEPT ![uid].hashed_password = hash_password(new_password),
                                ![uid].failed = 0, ![uid].locked_until = 0]
      /\ res' = Res("reset_password", TRUE, "ok", uid, NoTok)

\* POST /api/auth/reset-password behind the middleware
reset_password_route(reset_token, new_password) ==
  LET out == dispatch(<<"api", "auth", "reset-password">>, "POST", NoToken) IN
  /\ IF ~Passed(out) THEN
       /\ res' = Res("reset_password", FALSE, out, 0, NoTok)
       /\ UNCHANGED users
     ELSE IF app_mode = "local" THEN
       /\ res' = Res("reset_password", TRUE, "local_mode", 0, NoTok)
       /\ UNCHANGED users
     ELSE reset_password(reset_token, new_password)
  /\ UNCHANGED <<envVars, rateVars, hist, now, nextId, otps, invitations, issued, procs>>

----------------------------------------------------------------------------
(* Specification SpecOtp: the two OTP flows with the clock running past    *)
(* the OTP lifetime.  Either a fresh hosted system on which the operator   *)
(* bootstraps, or an unlocked one on which password resets are requested   *)
(* for the editor's email and for an email without an account.             *)

ResetEmails == {"b@x", "z@x"}

ForgotPasswordOn(emails, sends) ==
  \E email \in emails, email_sent \in sends : forgot_password(email, "111111", email_sent)

VerifyPasswordResetOtp ==
  \E email \in ResetEmails, otp_code \in Codes :
    verify_password_reset_otp_route(email, otp_code)

ResetPassword ==
  \E t \in Signed, pw \in Passwords : reset_password_route(t, pw)

OtpTicks == 2

OtpTick == now < OtpTicks /\ Tick

NextOtp ==
  \/ InitiateBootstrapOn({"a@x"}, {TRUE}) \/ VerifyBootstrapOtpOn({"a@x"})
  \/ SetupFirstTimePassword \/ Verify2faSetup
  \/ ForgotPasswordOn(ResetEmails, {TRUE}) \/ VerifyPasswordResetOtp \/ ResetPassword
  \/ OtpTick

InitOtp == InitBoot \/ InitLogin

SpecOtp == InitOtp /\ [][NextOtp]_vars

\* unused rows of (email, otp_type) whose code is `code` and that are spent: three
\* failed attempts were counted on them, or their expiry is past
SpentOtps(email, otp_type, code) ==
  {o \in OtpRows(email, otp_type) :
     ~o.used /\ o.code = code /\ (o.attempts >= 3 \/ now > o.expires_at)}

\* the OTP rows that a step replaced by a copy with one more attempt
CountedFailures ==
  {o \in otps : o \notin otps' /\ [o EXCEPT !.attempts = @ + 1] \in otps'}

\* C14 (three attempts, then forced rejection): a verification that presents the
\* correct code of a bootstrap or forgot_password OTP on which three failed
\* attempts were counted, or whose expiry is past, is rejected and issues no token;
\* and every verification that fails on the code is counted on the OTP, once.
C14_OtpAttemptsCapped ==
  [][/\ res'.op = "verify_bootstrap_otp" =>
          \A email \in BootEmails, code \in Codes :
            verify_bootstrap_otp_route(email, code) =>
              /\ SpentOtps(email, "bootstrap", code) # {}
                    => (~res'.ok /\ issued' = issued)
              /\ res'.why = "invalid_code"
                    => /\ Cardinality(CountedFailures) = 1
                       /\ \A o \in CountedFailures :
                            o.email = email /\ o.code # code /\ o.attempts < 3
     /\ res'.op = "verify_password_reset_otp" =>
          \A email \in ResetEmails, code \in Codes :
            verify_password_reset_otp_route(email, code) =>
              /\ SpentOtps(email, "forgot_password", code) # {}
                    => (~res'.ok /\ issued' = issued)
              /\ res'.why = "invalid_otp"
                    => /\ Cardinality(CountedFailures) = 1
                       /\ \A o \in CountedFailures :
                            o.email = email /\ o.code # code /\ o.attempts < 3]_vars

\* a forgot_password verification was just refused for the attempts, on an unused,
\* unexpired OTP that has three failed attempts counted
C14_Witness ==
  /\ res.op = "verify_password_reset_otp" /\ res.why = "max_otp_attempts"
  /\ \E o \in AllResetRows : ~o.used /\ o.attempts = 3 /\ ~(now > o.expires_at)

\* the unused, unexpired OTP rows of (email, otp_type)
ActiveOtps(email, otp_type) ==
  {o \in OtpRows(email, otp_type) : ~o.used /\ ~(now > o.expires_at)}

\* C15 (one active OTP per email and purpose): for every email, at most one unused,
\* unexpired bootstrap OTP and at most one unused, unexpired forgot_password OTP
\* is stored.
C15_OneActiveOtp ==
  \A email \in BootEmails \cup ResetEmails, otp_type \in {"bootstrap", "forgot_password"} :
    Cardinality(ActiveOtps(email, otp_type)) <= 1

\* the bootstrap half of C15 alone
C15_OneActiveBootstrapOtp ==
  \A email \in BootEmails \cup ResetEmails :
    Cardinality(ActiveOtps(email, "bootstrap")) <= 1

HasActiveAccount(email) ==
  UserIdsByEmail(email) # {} /\ \A i \in UserIdsByEmail(email) : users[i].status = "active"

\* C16 (enumeration resistance): on an unlocked hosted system every
\* forgot-password call gets the same success response, for an email without an
\* account as for one with an active account; a call for an active account stores
\* one new OTP row for that email, handed to the mailer, and a call for an email
\* without an account stores nothing.
C16_EnumerationResistance ==
  [][(res'.op = "forgot_password" /\ ~is_system_locked) =>
       \A email \in ResetEmails, email_sent \in BOOLEAN :
         forgot_password(email, "111111", email_sent) =>
           /\ res' = Res("forgot_password", TRUE, "if_the_email_exists", 0, NoTok)
           /\ HasActiveAccount(email) =>
                 /\ Cardinality(otps' \ otps) = 1 /\ otps \subseteq otps'
                 /\ \A o \in otps' \ otps :
                      o.email = email /\ o.otp_type = "forgot_password" /\ ~o.used
           /\ ~HasActiveAccount(email) => otps' = otps]_vars

\* the success response was just returned although nothing was stored, on a system
\* where another email has an active account: the call was for an unknown email
C16_Witness ==
  /\ res = Res("forgot_password", TRUE, "if_the_email_exists", 0, NoTok)
  /\ AllResetRows = {}
  /\ \E email \in ResetEmails : HasActiveAccount(email)
  /\ \E email \in ResetEmails : ~HasActiveAccount(email)

----------------------------------------------------------------------------
(* Backup codes: core/two_factor_service.py.  A stored string is modelled   *)
(* by its format and its content; a SHA-256 digest by the text it digests. *)

backup_codes_count == 10       \* TwoFactorService.backup_codes_count

\* generate_backup_codes: backup_codes_count codes over A-Z0-9, taken distinct
GeneratedCodes ==
  <<"BACKUP01", "BACKUP02", "BACKUP03", "BACKUP04", "BACKUP05",
    "BACKUP06", "BACKUP07", "BACKUP08", "BACKUP09", "BACKUP10">>

\* what a caller may type: a code, a code in lower case or padded, an unknown code
ProvidedCodes ==
  {GeneratedCodes[i] : i \in 1..backup_codes_count}
    \cup {"backup01", " BACKUP02 ", "ZZZZZZZZ"}

\* provided_code.upper().strip()
UpperStrip(code) ==
  IF code = "backup01" THEN "BACKUP01"
  ELSE IF code = " BACKUP02 " THEN "BACKUP02"
  ELSE code

\* hashlib.sha256((code + salt).encode()).hexdigest()
sha256(code, salt) == <<"sha256", code, salt>>

json_dumps(val) == [fmt |-> "json", val |-> val]

\* json.loads succeeds
json_loads_ok(str) == str.fmt = "json"

json_loads(str) == str.val

\* hash_backup_codes, with the salts that secrets.token_hex returned
hash_backup_codes(codes, salts) ==
  json_dumps([i \in 1..Len(codes) |->
                [hash |-> sha256(codes[i], salts[i]), salt |-> salts[i], used |-> FALSE]])

\* the first entry that is unused and whose hash matches, or 0
FirstMatch(stored_codes, provided_code) ==
  LET hits == {i \in 1..Len(stored_codes) :
                 /\ ~stored_codes[i].used
                 /\ sha256(provided_code, stored_codes[i].salt) = stored_codes[i].hash}
  IN IF hits = {} THEN 0 ELSE CHOOSE i \in hits : \A j \in hits : i <= j

\* a verification that accepts a code without spending it
verify_backup_code_json_NoMark(stored_codes_json, provided_code) ==
  IF ~json_loads_ok(stored_codes_json) THEN <<FALSE, stored_codes_json>>
  ELSE <<FirstMatch(json_loads(stored_codes_json), UpperStrip(provided_code)) # 0,
         stored_codes_json>>

\* verify_backup_code: (is_valid, updated_codes_json)
verify_backup_code_json(stored_codes_json, provided_code) ==
  IF ~json_loads_ok(stored_codes_json) THEN <<FALSE, stored_codes_json>>
  ELSE LET stored_codes == json_loads(stored_codes_json)
           i == FirstMatch(stored_codes, UpperStrip(provided_code))
       IN IF i = 0 THEN <<FALSE, stored_codes_json>>
          ELSE <<TRUE, json_dumps([stored_codes EXCEPT ![i].used = TRUE])>>

\* get_unused_backup_codes_count
get_unused_backup_codes_count(stored_codes_json) ==
  IF ~json_loads_ok(stored_codes_json) THEN 0
  ELSE Cardinality({i \in 1..Len(json_loads(stored_codes_json)) :
                      ~json_loads(stored_codes_json)[i].used})

----------------------------------------------------------------------------
(* Specification SpecBackup: a freshly generated and hashed set of backup   *)
(* codes kept in a user row; each call of verify_backup_code is given the   *)
(* structure the previous call returned.                                    *)

SaltChoices ==
  { [i \in 1..backup_codes_count |-> "salt"],
    [i \in 1..backup_codes_count |-> IF i % 2 = 0 THEN "salt-even" ELSE "salt-odd"] }

InitBackup ==
  /\ app_mode = "hosted"
  /\ tzOffset = 0
  /\ now = 0
  /\ \E salts \in SaltChoices :
       users = [i \in UserIds |->
                  IF i = 1 THEN [NewUser("a@x", "admin", "active") EXCEPT
                                   !.tfa = TRUE,
                                   !.backup_codes = hash_backup_codes(GeneratedCodes, salts)]
                  ELSE NoUser]
  /\ nextId = 2
  /\ otps = {}
  /\ invitations = {}
  /\ issued = {}
  /\ procs = NoProcs
  /\ res = NoRes
  /\ hist = NoHist
  /\ rateAttempts = NoAttempts
  /\ lastCheck = NoCheck

\* one call; res.why is the code as typed, res.uid the unused-count afterwards
VerifyBackupCode ==
  \E provided_code \in ProvidedCodes :
    LET r == verify_backup_code_json(users[1].backup_codes, provided_code) IN
    /\ users' = [users EXCEPT ![1].backup_codes = r[2]]
    /\ res' = Res("verify_backup_code", r[1], provided_code,
                  get_unused_backup_codes_count(r[2]), NoTok)
    /\ UNCHANGED <<envVars, rateVars, hist, now, nextId, otps, invitations, issued, procs>>

NextBackup == VerifyBackupCode

SpecBackup == InitBackup /\ [][NextBackup]_vars

\* the generated codes that verified so far: those whose entry is marked used
SpentCodes(stored_codes_json) ==
  {GeneratedCodes[i] : i \in {j \in 1..backup_codes_count :
                                 json_loads(stored_codes_json)[j].used}}

\* C17 (a backup code works once): a call succeeds exactly when the code typed is,
\* after upper-casing and stripping, a generated code that has not verified before;
\* a success spends that code and lowers the unused-count by exactly 1; a failure
\* returns the stored structure and the unused-count unchanged.
C17_BackupCodeOnce ==
  [][\A provided_code \in ProvidedCodes :
       (res'.op = "verify_backup_code" /\ res'.why = provided_code) =>
         LET stored == users[1].backup_codes
             after  == users'[1].backup_codes
             code   == UpperStrip(provided_code)
             fresh  == code \in {GeneratedCodes[i] : i \in 1..backup_codes_count}
                         \ SpentCodes(stored)
         IN /\ res'.ok <=> fresh
            /\ res'.ok =>
                 /\ SpentCodes(after) = SpentCodes(stored) \cup {code}
                 /\ get_unused_backup_codes_count(after)
                      = get_unused_backup_codes_count(stored) - 1
                 /\ ~verify_backup_code_json(after, provided_code)[1]
            /\ ~res'.ok =>
                 /\ after = stored
                 /\ get_unused_backup_codes_count(after)
                      = get_unused_backup_codes_count(stored)]_vars

\* every code has verified, and the last call, for a code already spent, failed
C17_Witness ==
  /\ res.op = "verify_backup_code" /\ ~res.ok
  /\ UpperStrip(res.why) \in SpentCodes(users[1].backup_codes)
  /\ get_unused_backup_codes_count(users[1].backup_codes) = 0

----------------------------------------------------------------------------
(* Specification SpecResetRate: password resets for the editor's email on  *)
(* an unlocked hosted system, within one rate-limit window; the history    *)
(* counts, per user, the reset-password calls that failed.                 *)

password_reset_max_attempts == 3    \* rules["password_reset"].max_attempts

\* failed calls the history counts up to
MaxResetFails == 4

\* the passwords submitted: two that pass validate_complexity and one that does not
ResetPasswords == Passwords \cup {"An0ther!Passw0rd77"}

\* POST /api/auth/reset-password, with the failed calls counted in the history
ResetPasswordCounted ==
  \E t \in Signed, pw \in ResetPasswords :
    LET uid == GetInt(t, "user_id") IN
    /\ app_mode = "hosted"
    /\ Passed(dispatch(<<"api", "auth", "reset-password">>, "POST", NoToken))
    /\ reset_password(t, pw)
    /\ hist' = IF res'.ok \/ uid \notin UserIds THEN hist
               ELSE [hist EXCEPT ![uid].fails = @ + 1]
    /\ \A u \in UserIds : hist'[u].fails <= MaxResetFails
    /\ UNCHANGED <<envVars, rateVars, now, nextId, otps, invitations, issued, procs>>

NextResetRate ==
  \/ ForgotPasswordOn({"b@x"}, {TRUE})
  \/ VerifyPasswordResetOtp
  \/ ResetPasswordCounted
  \/ OtpTick

SpecResetRate == InitLogin /\ [][NextResetRate]_vars

\* C24 (each reset step is rate-limited): once the failed reset-password calls
\* counted for one email within the window have reached the rule's maximum, no
\* further reset-password call for that email is served.
C24_ResetStepRateLimited ==
  (res.op = "reset_password" /\ res.ok)
    => hist[res.uid].fails < password_reset_max_attempts

\* the reset tokens signed for a user
ResetTokensOf(uid) ==
  {t \in Signed : Get(t, "type") = "reset" /\ GetInt(t, "user_id") = uid}

\* C28 (a reset token is single-use): when reset_password has just succeeded for a
\* user with the only reset token signed for that user, a further reset_password
\* call with that token fails and leaves the user's row unchanged.
C28_ResetTokenSingleUse ==
  [][\A t \in Signed, pw \in ResetPasswords :
       (/\ res.op = "reset_password" /\ res.ok /\ res.why = "ok"
        /\ ResetTokensOf(res.uid) = {t}
        /\ reset_password(t, pw))
         => (~res'.ok /\ users' = users)]_vars

----------------------------------------------------------------------------
(* Specification SpecSession: the editor logs in, keeps the session tokens *)
(* the logins return and presents them to the gate on a protected route.   *)

\* POST /api/auth/login; the client keeps the token it gets
LoginKeepOn(emails, passwords) ==
  \E email \in emails, password \in passwords :
    /\ login(email, password, NoneS, NoneS)
    /\ IF res'.ok /\ res'.tok # NoTok
         THEN AddToken(res'.tok, "authenticate_user")
         ELSE UNCHANGED issued

NextSession ==
  \/ LoginKeepOn({"b@x"}, {ThePassword, "wrong"})
  \/ GateOn({<<"api", "workspaces">>}, {"GET"}, Signed)
  \/ LoginTick

SpecSession == InitLogin /\ [][NextSession]_vars

\* the user a login names in the token it returns
LoginTokenUser(token) ==
  IF IsIntStr(Get(token, "sub")) THEN GetUser(IntOfStr(Get(token, "sub"))) ELSE NoUser

\* C25 (an issued session token is accepted): a session token returned by a
\* successful login, presented before its expiry on a protected route while its
\* user is active and not locked, passes the gate.
C25_IssuedSessionAccepted ==
  [][\A r \in issued :
       (/\ r.by = "authenticate_user"
        /\ verify_token_ok(r.tok)
        /\ LoginTokenUser(r.tok).exists /\ LoginTokenUser(r.tok).status = "active"
        /\ ~is_account_locked(LoginTokenUser(r.tok))
        /\ GateOn({<<"api", "workspaces">>}, {"GET"}, {r.tok}))
         => res'.ok]_vars

----------------------------------------------------------------------------
(* Specification SpecBackupLogin: the first admin, as verify_2fa_setup left *)
(* the row, logs in with the password and a backup code.                    *)

\* verify_2fa_setup: ",".join(hash_password(code) for code in backup_codes)
comma_joined_hashes(codes) ==
  [fmt |-> "csv", val |-> [i \in 1..Len(codes) |-> hash_password(codes[i])]]

\* two_factor_service.normalize_backup_code_input, for the codes typed here (none
\* holds a dash or an inner space)
normalize_backup_code_input(code) == UpperStrip(code)

InitBackupLogin ==
  /\ app_mode = "hosted"
  /\ tzOffset = 0
  /\ now = 0
  /\ users = [i \in UserIds |->
                IF i = 1 THEN [NewUser("a@x", "admin", "active") EXCEPT
                                 !.tfa = TRUE,
                                 !.hashed_password = hash_password(ThePassword),
                                 !.backup_codes = comma_joined_hashes(GeneratedCodes)]
                ELSE NoUser]
  /\ nextId = 2
  /\ otps = {}
  /\ invitations = {}
  /\ issued = {}
  /\ procs = NoProcs
  /\ res = NoRes
  /\ hist = NoHist
  /\ rateAttempts = NoAttempts
  /\ lastCheck = NoCheck

\* AuthService.authenticate_user for the admin's email, called with a password and
\* a backup code and without a TOTP code; the row always holds stored codes
authenticate_with_backup_code(password, backup_code) ==
  LET user == users[1]
      r    == verify_backup_code_json(user.backup_codes,
                                      normalize_backup_code_input(backup_code))
      why  == IF is_account_locked(user) THEN "account_locked"
              ELSE IF user.status # "active" THEN "account_suspended"
              ELSE IF ~verify_password(password, user.hashed_password)
                THEN "invalid_password"
              ELSE IF ~r[1] THEN "invalid_backup_code"
              ELSE "ok"
  IN
  /\ user.failed < MaxFailed
  /\ users' = [users EXCEPT ![1] =
                 [commit_row(user, user.failed, why) EXCEPT
                    !.backup_codes = IF why = "ok" THEN r[2] ELSE @]]
  /\ hist' = hist_after(1, why)
  /\ res' = Res("authenticate_user", why = "ok", why, 1,
                IF why = "ok" THEN login_token(1) ELSE NoTok)
  /\ UNCHANGED <<envVars, rateVars, now, nextId, otps, invitations, issued, procs>>

BackupCodeLogin ==
  \E password \in {ThePassword, "wrong"}, backup_code \in ProvidedCodes :
    /\ Passed(dispatch(<<"api", "auth", "login">>, "POST", NoToken))
    /\ authenticate_with_backup_code(password, backup_code)

NextBackupLogin == BackupCodeLogin \/ LoginTick

SpecBackupLogin == InitBackupLogin /\ [][NextBackupLogin]_vars

\* the generated codes marked used in a stored value; a value that does not parse
\* carries no marks
UsedCodes(stored) == IF json_loads_ok(stored) THEN SpentCodes(stored) ELSE {}

\* C26 (a bootstrap backup code works as second factor): a login of the admin with
\* the correct password and a backup code handed out at bootstrap that was not used
\* before, made while the account is not locked, succeeds.
C26_BootstrapBackupCodeAccepted ==
  [][\A backup_code \in ProvidedCodes :
       (/\ res'.op = "authenticate_user"
        /\ authenticate_with_backup_code(ThePassword, backup_code)
        /\ ~is_account_locked(users[1])
        /\ UpperStrip(backup_code) \in
             {GeneratedCodes[i] : i \in 1..backup_codes_count}
               \ UsedCodes(users[1].backup_codes))
         => res'.ok]_vars

----------------------------------------------------------------------------
(* Specification SpecLimiter: POST /api/bootstrap behind the rate limiter,  *)
(* one client address and one email, on a fresh hosted system.             *)

\* POST /api/bootstrap: check_rate_limit, initiate_bootstrap, record_attempt
initiate_bootstrap_route(token, email, ip_address, smtp_ok, email_sent) ==
  LET checked == check_rate_limit(rateAttempts, "bootstrap", ip_address, email, now) IN
  IF ~checked.allowed THEN
    /\ app_mode = "hosted"
    /\ res' = Res("initiate_bootstrap", FALSE, "429_rate_limited", 0, NoTok)
    /\ rateAttempts' = checked.attempts
    /\ lastCheck' = [at |-> now, allowed |-> FALSE, retry_after |-> checked.retry_after,
                     key |-> <<ip_address, email>>]
    /\ UNCHANGED <<envVars, hist, now, dbVars, issued, procs>>
  ELSE
    /\ initiate_bootstrap(token, email, smtp_ok, email_sent, "111111")
    /\ rateAttempts' = record_attempt(checked.attempts, "bootstrap", res'.ok,
                                      ip_address, email, now)
    /\ lastCheck' = [at |-> now, allowed |-> TRUE, retry_after |-> -1,
                     key |-> <<ip_address, email>>]

InitiateBootstrapLimited ==
  \E token \in {admin_bootstrap_token, "wrong"}, email \in LimitedEmails,
     ip_address \in ClientIps, smtp_ok \in BOOLEAN, email_sent \in BOOLEAN :
    initiate_bootstrap_route(token, email, ip_address, smtp_ok, email_sent)

NextLimiter == InitiateBootstrapLimited \/ VerifyBootstrapOtpOn(LimitedEmails) \/ Tick

SpecLimiter == InitBoot /\ [][NextLimiter]_vars

\* C30 (retry-after is honoured): when the last check for a key was rejected with
\* retry_after = r and no attempt has been recorded for the key since, a check for
\* that key made more than r after the rejection is allowed.
C30_RetryAfterHonoured ==
  [][(/\ ~lastCheck.allowed
      /\ lastCheck'.key = lastCheck.key
      /\ lastCheck'.at > lastCheck.at + lastCheck.retry_after)
       => lastCheck'.allowed]_vars

====
